---- MODULE Spec2Model ----
(***************************************************************************)
(* Model of gauge's SpecInfoGatherer (api/infoGatherer/specDetails.go):    *)
(* the three caches, the sync.WaitGroup used as readiness barrier, the     *)
(* bulk build, the fsnotify event loop and the query operations; and of    *)
(* gauge.Specification's concept expansion (package gauge).                *)
(***************************************************************************)
EXTENDS Integers, Sequences, FiniteSets, TLC

\* ------------------------------------------------------------------ bounds
\* number of file-system changes the environment makes
MaxFsOps == 2
\* the same, in the runs with clients
MaxQueryFsOps == 1

\* steps of the specification that is expanded
MaxSteps == 2
\* items added to a specification
MaxItems == 3
\* scenarios of the file a position is asked in, and its number of lines
MaxScenarios == 2
MaxLine == 3

\* ------------------------------------------------------- the project on disk
Absent == "absent"
Bad == "bad"
Dir == "dir"

SpecFiles == {"a.spec", "b.spec"}
ConceptFiles == {"c.cpt"}
Files == SpecFiles \cup ConceptFiles
\* directories under the specs directory: the nested one the project starts with,
\* an ordinary new one and a new one whose name ends like a specification file's
Dirs == {"specs/sub", "specs/new", "specs/d.spec"}

\* util.IsSpec / util.IsConcept classify a path by its extension
IsSpec(file) == file \in SpecFiles \cup {"specs/d.spec"}
IsConcept(file) == file \in ConceptFiles
\* util.IsDir
IsDir(file, d) == d[file] = Dir

\* allDirsToWatch: the specs directory followed by its nested directories
AllDirsToWatch == <<"specs", "specs/sub">>

\* what a well-formed spec file holds: context steps and scenarios of steps
SpecSource(v) ==
  IF v = "v1"
  THEN [Contexts |-> <<"Click button">>, Scenarios |-> << <<"Login">> >>]
  ELSE [Contexts |-> << >>, Scenarios |-> << <<"Click button", "Submit form">> >>]

\* what a well-formed concept file holds: concept headings with their bodies
ConceptSource(v) ==
  IF v = "v1"
  THEN << [Value |-> "Login", ConceptSteps |-> <<"Enter name">>] >>
  ELSE << [Value |-> "Login", ConceptSteps |-> <<"Enter name">>],
          [Value |-> "Logout", ConceptSteps |-> <<"Submit form">>] >>

\* ----------------------------------------------------------- Go map helpers
EmptyMap == [k \in {} |-> 0]
Put(m, k, v) == [x \in (DOMAIN m) \cup {k} |-> IF x = k THEN v ELSE m[x]]
\* delete(m, k) that deletes nothing
DelNothing(m, k) == m
Del(m, k) == [x \in (DOMAIN m) \ {k} |-> m[x]]

\* the orders in which a range over a map may visit its keys
Orders(S) == {o \in [1..Cardinality(S) -> S] : \A i, j \in 1..Cardinality(S) : o[i] = o[j] => i = j}

\* the elements of a slice
Range(list) == {list[i] : i \in 1..Len(list)}

RECURSIVE ConcatAll(_)
ConcatAll(seqs) == IF seqs = << >> THEN << >> ELSE Head(seqs) \o ConcatAll(Tail(seqs))

VARIABLES
  disk,               \* file -> Absent, Bad or a version
  fsOps,              \* file-system changes made so far
  watchSet,           \* directories registered with the fsnotify watcher
  events,             \* watcher.Events: notifications not yet received
  waitGroup,          \* SpecInfoGatherer.waitGroup counter
  inflight,           \* the units of work counted by waitGroup
  completed,          \* the units of work that have called Done
  conceptDictionary,  \* SpecInfoGatherer.conceptDictionary
  made,               \* which cache maps have been created (non-nil)
  specsCache,         \* path -> sequence of Specification
  conceptsCache,      \* path -> sequence of Concept
  stepsCache,         \* signature -> StepValue
  pcMain,             \* MakeListOfAvailableSteps
  bulkTodo,           \* items the running init phase still has to add
  pcWatch,            \* watchForFileChanges
  dirsTodo,           \* directories still to register
  pcEv,               \* the event-loop goroutine
  ev,                 \* the event being handled
  evNo,               \* events received so far
  evParsed,           \* what the running task's parse returned, not yet added
  pcQ,                \* each client's query
  qSeen,              \* the units of work in flight when the query was issued
  panicked,           \* the process died on a runtime panic
  heap,               \* the Step and StepArg objects: [steps, args], by address
  dictionary,         \* ConceptDictionary: step value -> address of the concept's root step
  specification,      \* the Specification being expanded: Contexts, Scenarios, TearDownSteps
  pos,                \* how many steps ProcessConceptStepsFrom has been through
  xpc,                \* ProcessConceptStepsFrom: idle, run, done, failed or panicked
  results,            \* per step gone through: what processConceptStep did
  mutated,            \* the object a caller changed after the expansion, if any
  specItems,          \* a Specification under construction: Items, Scenarios, Contexts, ...
  ipc,                \* what its caller is doing: idle, build or filter
  atInput,            \* the arguments of a call of getScenarioAt
  atResult,           \* what the call returned
  pluginsMap,         \* pluginHandler.pluginsMap
  handler,            \* the goroutine that calls the pluginHandler
  plugin              \* id -> the plugin started for it

cacheVars == <<conceptDictionary, made, specsCache, conceptsCache, stepsCache>>
fsVars == <<disk, fsOps, events>>
wgVars == <<waitGroup, inflight, completed>>
mainVars == <<pcMain, bulkTodo>>
watchVars == <<pcWatch, dirsTodo, watchSet>>
evVars == <<pcEv, ev, evNo, evParsed>>
qVars == <<pcQ, qSeen>>
expVars == <<heap, dictionary, specification, pos, xpc, results, mutated>>
itemVars == <<specItems, ipc>>
indexVars == <<cacheVars, fsVars, wgVars, mainVars, watchVars, evVars, qVars, panicked>>
lspVars == <<atInput, atResult>>
pluginVars == <<pluginsMap, handler, plugin>>
\* the state the goroutines of SpecInfoGatherer leave alone
gaugeVars == <<expVars, itemVars, lspVars, pluginVars>>
vars == <<indexVars, gaugeVars>>

\* the goroutines calling the query operations. A query writes nothing another
\* goroutine reads (Wait leaves the counter alone, the mutex is free again when the
\* copy ends), so one client, calling again and again, shows what any query can see
Clients == {"q1"}

\* ------------------------------------------------------------------ parsing
\* gauge.NewConceptDictionary()
NewConceptDictionary == [state |-> "lazy", ConceptsMap |-> EmptyMap]

\* a parsed step: it is a concept invocation when the dictionary knows its value
Step(text, dict) == [Value |-> text, IsConcept |-> text \in DOMAIN dict.ConceptsMap]

\* parser.ParseSpecFiles for one file: the parsed specification, if any
ParseSpecFile(file, d, dict) ==
  IF d[file] \in {Absent, Bad, Dir} THEN << >>
  ELSE LET src == SpecSource(d[file]) IN
       << [FileName |-> file,
           Contexts |-> [i \in 1..Len(src.Contexts) |-> Step(src.Contexts[i], dict)],
           Scenarios |-> [i \in 1..Len(src.Scenarios) |->
                            [Steps |-> [j \in 1..Len(src.Scenarios[i]) |->
                                          Step(src.Scenarios[i][j], dict)]]]] >>

\* a concept's root step with its body
ConceptStep(c) ==
  [Value |-> c.Value, IsConcept |-> TRUE,
   ConceptSteps |-> [i \in 1..Len(c.ConceptSteps) |->
                       [Value |-> c.ConceptSteps[i], IsConcept |-> FALSE]]]

\* conceptParser.ParseFile: the concept steps of the file and whether it parsed
ParseConceptFile(file, d) ==
  IF d[file] \in {Absent, Bad} THEN [ok |-> FALSE, concepts |-> << >>]
  ELSE LET src == ConceptSource(d[file]) IN
       [ok |-> TRUE, concepts |-> [i \in 1..Len(src) |-> ConceptStep(src[i])]]

\* gauge.Concept{ConceptStep: concept, FileName: file}
Concept(step, file) == [ConceptStep |-> step, FileName |-> file]

\* parser.CreateConceptsDictionary: signature -> concept; a file that fails to
\* parse contributes nothing and does not abort
CreateConceptsDictionary(d) ==
  LET all == UNION {{Concept(ParseConceptFile(f, d).concepts[i], f) :
                       i \in 1..Len(ParseConceptFile(f, d).concepts)} : f \in ConceptFiles} IN
  [state |-> "bulk",
   ConceptsMap |-> [v \in {c.ConceptStep.Value : c \in all} |->
                      CHOOSE c \in all : c.ConceptStep.Value = v]]

\* ------------------------------------------------------- the step catalogue
\* getParsedStepValues: a StepValue for every step that is not a concept; origin
\* tells apart the StepValue objects made from different files
getParsedStepValues(steps, origin) ==
  LET plain == SelectSeq(steps, LAMBDA s : ~s.IsConcept) IN
  [i \in 1..Len(plain) |-> [StepValue |-> plain[i].Value, origin |-> origin]]

\* getStepsFromSpec without the loop over spec.Scenarios
getStepsFromSpecContextsOnly(spec) == getParsedStepValues(spec.Contexts, spec.FileName)

getStepsFromSpec(spec) ==
  getParsedStepValues(spec.Contexts, spec.FileName) \o
  ConcatAll([i \in 1..Len(spec.Scenarios) |->
               getParsedStepValues(spec.Scenarios[i].Steps, spec.FileName)])

getStepsFromConcept(concept) ==
  getParsedStepValues(concept.ConceptStep.ConceptSteps, concept.FileName)

\* the body of addToStepsCache's loop with the test inverted: last writer wins
InsertStepOverwrite(cache, step) == Put(cache, step.StepValue, step)

\* the body of addToStepsCache's loop: insert unless the signature is present
InsertStep(cache, step) ==
  IF step.StepValue \in DOMAIN cache THEN cache ELSE Put(cache, step.StepValue, step)

RECURSIVE addToStepsCache(_, _)
addToStepsCache(cache, allSteps) ==
  IF allSteps = << >> THEN cache
  ELSE addToStepsCache(InsertStep(cache, Head(allSteps)), Tail(allSteps))

\* append to the slice cached under key (addToSpecsCache, addToConceptsCache)
AppendTo(cache, key, value) ==
  Put(cache, key, Append(IF key \in DOMAIN cache THEN cache[key] ELSE << >>, value))

\* getStepsFromCachedSpecs, the range over s.specsCache visiting the keys in order o
getStepsFromCachedSpecs(cache, o) ==
  ConcatAll([i \in 1..Len(o) |->
               ConcatAll([j \in 1..Len(cache[o[i]]) |-> getStepsFromSpec(cache[o[i]][j])])])

\* getStepsFromCachedConcepts, the range over s.conceptsCache visiting the keys in order o
getStepsFromCachedConcepts(cache, o) ==
  ConcatAll([i \in 1..Len(o) |->
               ConcatAll([j \in 1..Len(cache[o[i]]) |-> getStepsFromConcept(cache[o[i]][j])])])

\* ------------------------------------------------------------ the WaitGroup
\* waitGroup.Wait() that does not block at all
WaitNoBlock(counter) == TRUE

\* waitGroup.Wait() returns when the counter is zero
WaitReturns(counter) == counter = 0

\* the Add left out
AddNothing(tokens) == UNCHANGED <<waitGroup, inflight, completed>>

\* waitGroup.Add(n) for the units of work in tokens
Add(tokens) ==
  /\ waitGroup' = waitGroup + Cardinality(tokens)
  /\ inflight' = inflight \cup tokens
  /\ UNCHANGED completed

\* the Done left out
DoneSkipped(token) == UNCHANGED <<waitGroup, inflight, completed>>

\* waitGroup.Done() of one unit of work
Done(token) ==
  /\ waitGroup' = waitGroup - 1
  /\ inflight' = inflight \ {token}
  /\ completed' = completed \cup {token}

WatchToken == <<"watch", 0>>
ConceptsToken == <<"concepts", 0>>
SpecsToken == <<"specs", 0>>
StepsToken == <<"steps", 0>>
TaskToken(n) == <<"task", n>>

NoEvent == [Op |-> "none", Name |-> "none"]

\* -------------------------------------------------------------------- Init
IndexInit ==
  /\ disk = [f \in Files \cup Dirs |->
               CASE f \in {"a.spec", "c.cpt"} -> "v1" [] f = "specs/sub" -> Dir [] OTHER -> Absent]
  /\ fsOps = 0
  /\ watchSet = {}
  /\ events = << >>
  /\ waitGroup = 0
  /\ inflight = {}
  /\ completed = {}
  /\ conceptDictionary = [state |-> "nil", ConceptsMap |-> EmptyMap]
  /\ made = [m \in {"specs", "concepts", "steps"} |-> FALSE]
  /\ specsCache = EmptyMap
  /\ conceptsCache = EmptyMap
  /\ stepsCache = EmptyMap
  /\ pcMain = "start"
  /\ bulkTodo = << >>
  /\ pcWatch = "off"
  /\ dirsTodo = << >>
  /\ pcEv = "off"
  /\ ev = NoEvent
  /\ evNo = 0
  /\ evParsed = << >>
  /\ pcQ = [q \in Clients |-> "idle"]
  /\ qSeen = [q \in Clients |-> {}]
  /\ panicked = FALSE

\* ------------------------------------------------ MakeListOfAvailableSteps
\* the order of the init calls after waitGroup.Add(3), specs and concepts swapped
PhaseAfterSwapped(phase) ==
  CASE phase = "add3" -> "s_make"
    [] phase = "specs" -> "c_make"
    [] phase = "concepts" -> "t_make"
    [] OTHER -> "done"

\* the order of the init calls after waitGroup.Add(3)
PhaseAfter(phase) ==
  CASE phase = "add3" -> "c_make"
    [] phase = "concepts" -> "s_make"
    [] phase = "specs" -> "t_make"
    [] OTHER -> "done"

\* go s.watchForFileChanges()
MainSpawnWatcher ==
  /\ ~panicked
  /\ UNCHANGED gaugeVars
  /\ pcMain = "start"
  /\ pcMain' = "wait"
  /\ pcWatch' = "add"
  /\ UNCHANGED <<cacheVars, fsVars, wgVars, bulkTodo, dirsTodo, watchSet, evVars, qVars, panicked>>

\* s.waitGroup.Wait()
MainWait ==
  /\ ~panicked
  /\ UNCHANGED gaugeVars
  /\ pcMain = "wait"
  /\ WaitReturns(waitGroup)
  /\ pcMain' = "add3"
  /\ UNCHANGED <<cacheVars, fsVars, wgVars, bulkTodo, watchVars, evVars, qVars, panicked>>

\* s.waitGroup.Add(3)
MainAdd3 ==
  /\ ~panicked
  /\ UNCHANGED gaugeVars
  /\ pcMain = "add3"
  /\ Add({ConceptsToken, SpecsToken, StepsToken})
  /\ pcMain' = PhaseAfter("add3")
  /\ UNCHANGED <<cacheVars, fsVars, bulkTodo, watchVars, evVars, qVars, panicked>>

\* initConceptsCache: s.conceptsCache = make(...) and parsedConcepts :=
\* s.getParsedConcepts(); every step of another goroutine commutes with one of the
\* two, so they are taken together
InitConceptsParse ==
  /\ ~panicked
  /\ UNCHANGED gaugeVars
  /\ pcMain = "c_make"
  /\ conceptsCache' = EmptyMap
  /\ made' = [made EXCEPT !["concepts"] = TRUE]
  /\ conceptDictionary' = CreateConceptsDictionary(disk)
  /\ \E o \in Orders(DOMAIN conceptDictionary'.ConceptsMap) :
       bulkTodo' = [i \in 1..Len(o) |-> conceptDictionary'.ConceptsMap[o[i]]]
  /\ pcMain' = "c_add"
  /\ UNCHANGED <<specsCache, stepsCache, fsVars, wgVars, watchVars, evVars, qVars, panicked>>

\* initConceptsCache: one s.addToConceptsCache(concept.FileName, concept)
InitConceptsAdd ==
  /\ ~panicked
  /\ UNCHANGED gaugeVars
  /\ pcMain = "c_add"
  /\ bulkTodo # << >>
  /\ conceptsCache' = AppendTo(conceptsCache, Head(bulkTodo).FileName, Head(bulkTodo))
  /\ bulkTodo' = Tail(bulkTodo)
  /\ UNCHANGED <<conceptDictionary, made, specsCache, stepsCache, fsVars, wgVars, pcMain,
                 watchVars, evVars, qVars, panicked>>

\* initConceptsCache returns: the deferred s.waitGroup.Done()
InitConceptsDone ==
  /\ ~panicked
  /\ UNCHANGED gaugeVars
  /\ pcMain = "c_add"
  /\ bulkTodo = << >>
  /\ Done(ConceptsToken)
  /\ pcMain' = PhaseAfter("concepts")
  /\ UNCHANGED <<cacheVars, fsVars, bulkTodo, watchVars, evVars, qVars, panicked>>

\* initSpecsCache: s.specsCache = make(...), util.FindSpecFilesIn and
\* parsedSpecs := s.getParsedSpecs(specFiles)
InitSpecsParse ==
  /\ ~panicked
  /\ UNCHANGED gaugeVars
  /\ pcMain = "s_make"
  /\ specsCache' = EmptyMap
  /\ made' = [made EXCEPT !["specs"] = TRUE]
  /\ conceptDictionary' = IF conceptDictionary.state = "nil" THEN NewConceptDictionary
                          ELSE conceptDictionary
  /\ \E o \in Orders({f \in SpecFiles : disk[f] # Absent}) :
       bulkTodo' = ConcatAll([i \in 1..Len(o) |-> ParseSpecFile(o[i], disk, conceptDictionary')])
  /\ pcMain' = "s_add"
  /\ UNCHANGED <<conceptsCache, stepsCache, fsVars, wgVars, watchVars, evVars, qVars, panicked>>

\* initSpecsCache: one s.addToSpecsCache(spec.FileName, spec)
InitSpecsAdd ==
  /\ ~panicked
  /\ UNCHANGED gaugeVars
  /\ pcMain = "s_add"
  /\ bulkTodo # << >>
  /\ specsCache' = AppendTo(specsCache, Head(bulkTodo).FileName, Head(bulkTodo))
  /\ bulkTodo' = Tail(bulkTodo)
  /\ UNCHANGED <<conceptDictionary, made, conceptsCache, stepsCache, fsVars, wgVars, pcMain,
                 watchVars, evVars, qVars, panicked>>

\* initSpecsCache returns: the deferred s.waitGroup.Done()
InitSpecsDone ==
  /\ ~panicked
  /\ UNCHANGED gaugeVars
  /\ pcMain = "s_add"
  /\ bulkTodo = << >>
  /\ Done(SpecsToken)
  /\ pcMain' = PhaseAfter("specs")
  /\ UNCHANGED <<cacheVars, fsVars, bulkTodo, watchVars, evVars, qVars, panicked>>

\* initStepsCache: s.stepsCache = make(...), stepsFromSpecs :=
\* s.getStepsFromCachedSpecs() and stepsFromConcepts := s.getStepsFromCachedConcepts()
InitStepsCollect ==
  /\ ~panicked
  /\ UNCHANGED gaugeVars
  /\ pcMain = "t_make"
  /\ stepsCache' = EmptyMap
  /\ made' = [made EXCEPT !["steps"] = TRUE]
  /\ \E o \in Orders(DOMAIN specsCache) : \E oc \in Orders(DOMAIN conceptsCache) :
       bulkTodo' = getStepsFromCachedSpecs(specsCache, o) \o
                   getStepsFromCachedConcepts(conceptsCache, oc)
  /\ pcMain' = "t_add"
  /\ UNCHANGED <<conceptDictionary, specsCache, conceptsCache, fsVars, wgVars,
                 watchVars, evVars, qVars, panicked>>

\* initStepsCache: s.addToStepsCache(allSteps) and the deferred s.waitGroup.Done()
InitStepsAdd ==
  /\ ~panicked
  /\ UNCHANGED gaugeVars
  /\ pcMain = "t_add"
  /\ stepsCache' = addToStepsCache(stepsCache, bulkTodo)
  /\ bulkTodo' = << >>
  /\ Done(StepsToken)
  /\ pcMain' = PhaseAfter("steps")
  /\ UNCHANGED <<conceptDictionary, made, specsCache, conceptsCache, fsVars,
                 watchVars, evVars, qVars, panicked>>

\* ------------------------------------------------------ watchForFileChanges
\* s.waitGroup.Add(1)
WatchAdd ==
  /\ ~panicked
  /\ UNCHANGED gaugeVars
  /\ pcWatch = "add"
  /\ Add({WatchToken})
  /\ pcWatch' = "spawn"
  /\ UNCHANGED <<cacheVars, fsVars, mainVars, dirsTodo, watchSet, evVars, qVars, panicked>>

\* go func() { for { select ... } }() and the computation of allDirsToWatch
WatchSpawnLoop ==
  /\ ~panicked
  /\ UNCHANGED gaugeVars
  /\ pcWatch = "spawn"
  /\ pcEv' = "recv"
  /\ dirsTodo' = AllDirsToWatch
  /\ pcWatch' = "register"
  /\ UNCHANGED <<cacheVars, fsVars, wgVars, mainVars, watchSet, ev, evNo, evParsed, qVars, panicked>>

\* one addDirToFileWatcher(watcher, dir)
WatchRegister ==
  /\ ~panicked
  /\ UNCHANGED gaugeVars
  /\ pcWatch = "register"
  /\ dirsTodo # << >>
  /\ watchSet' = watchSet \cup {Head(dirsTodo)}
  /\ dirsTodo' = Tail(dirsTodo)
  /\ UNCHANGED <<cacheVars, fsVars, wgVars, mainVars, pcWatch, evVars, qVars, panicked>>

\* s.waitGroup.Done(), then <-done blocks for ever
WatchDone ==
  /\ ~panicked
  /\ UNCHANGED gaugeVars
  /\ pcWatch = "register"
  /\ dirsTodo = << >>
  /\ Done(WatchToken)
  /\ pcWatch' = "blocked"
  /\ UNCHANGED <<cacheVars, fsVars, mainVars, dirsTodo, watchSet, evVars, qVars, panicked>>

\* ------------------------------------------------- the event-loop goroutine
\* case event := <-watcher.Events
EvRecv ==
  /\ ~panicked
  /\ UNCHANGED gaugeVars
  /\ pcEv = "recv"
  /\ events # << >>
  /\ ev' = Head(events)
  /\ events' = Tail(events)
  /\ evNo' = evNo + 1
  /\ pcEv' = "wait"
  /\ UNCHANGED <<cacheVars, disk, fsOps, wgVars, mainVars, watchVars, evParsed, qVars, panicked>>

\* the task each handler runs, by the point of the event loop it starts at
onFileModify(file) ==
  IF IsSpec(file) THEN "sm_chk" ELSE IF IsConcept(file) THEN "cm_parse" ELSE "done"

onFileRemove(file) ==
  IF IsSpec(file) THEN "sr_delete" ELSE IF IsConcept(file) THEN "cr_delete" ELSE "rm_watch"

\* a rename handled as a write
onFileRenameAsModify(file) == onFileModify(file)

onFileRename(file) == onFileRemove(file)

\* handleEvent's switch on event.Op
TaskOf(e) ==
  CASE e.Op \in {"Create", "Write"} -> onFileModify(e.Name)
    [] e.Op = "Rename" -> onFileRename(e.Name)
    [] OTHER -> onFileRemove(e.Name)

\* handleEvent: s.waitGroup.Wait(), the test util.IsSpec(file) || util.IsConcept(file),
\* which an event on any other path fails, and onFileAdd's util.IsDir(file)
EvWait ==
  /\ ~panicked
  /\ UNCHANGED gaugeVars
  /\ pcEv = "wait"
  /\ WaitReturns(waitGroup)
  /\ pcEv' = CASE ~(IsSpec(ev.Name) \/ IsConcept(ev.Name)) -> "recv"
                [] ev.Op = "Create" /\ IsDir(ev.Name, disk) -> "adddir"
                [] OTHER -> "add"
  /\ ev' = IF pcEv' = "recv" THEN NoEvent ELSE ev
  /\ UNCHANGED <<cacheVars, fsVars, wgVars, mainVars, watchVars, evNo, evParsed, qVars, panicked>>

\* onFileAdd: addDirToFileWatcher(watcher, file)
EvAddDir ==
  /\ ~panicked
  /\ UNCHANGED gaugeVars
  /\ pcEv = "adddir"
  /\ watchSet' = watchSet \cup {ev.Name}
  /\ pcEv' = "add"
  /\ UNCHANGED <<cacheVars, fsVars, wgVars, mainVars, pcWatch, dirsTodo, ev, evNo, evParsed,
                 qVars, panicked>>

\* the task's s.waitGroup.Add(1)
EvTaskAdd ==
  /\ ~panicked
  /\ UNCHANGED gaugeVars
  /\ pcEv = "add"
  /\ Add({TaskToken(evNo)})
  /\ pcEv' = TaskOf(ev)
  /\ UNCHANGED <<cacheVars, fsVars, mainVars, watchVars, ev, evNo, evParsed, qVars, panicked>>

\* onSpecFileModify, getParsedSpecs: if s.conceptDictionary == nil
SpecModifyCheckDictionary ==
  /\ ~panicked
  /\ UNCHANGED gaugeVars
  /\ pcEv = "sm_chk"
  /\ pcEv' = IF conceptDictionary.state = "nil" THEN "sm_new" ELSE "sm_parse"
  /\ UNCHANGED <<cacheVars, fsVars, wgVars, mainVars, watchVars, ev, evNo, evParsed, qVars, panicked>>

\* parsedSpecs[0] taken whatever the parser returned
AfterSpecParseUnchecked(parsedSpecs) == "sm_addSpec"

\* onSpecFileModify: if len(parsedSpecs) != 0
AfterSpecParse(parsedSpecs) == IF parsedSpecs = << >> THEN "done" ELSE "sm_addSpec"

\* onSpecFileModify, getParsedSpecs: the dictionary assignment and ParseSpecFiles
SpecModifyParse ==
  /\ ~panicked
  /\ UNCHANGED gaugeVars
  /\ pcEv \in {"sm_new", "sm_parse"}
  /\ conceptDictionary' = IF pcEv = "sm_new" THEN NewConceptDictionary ELSE conceptDictionary
  /\ evParsed' = ParseSpecFile(ev.Name, disk, conceptDictionary')
  /\ pcEv' = AfterSpecParse(evParsed')
  /\ UNCHANGED <<made, specsCache, conceptsCache, stepsCache, fsVars, wgVars, mainVars,
                 watchVars, ev, evNo, qVars, panicked>>

\* onSpecFileModify: s.addToSpecsCache(file, parsedSpec)
SpecModifyAddSpec ==
  /\ ~panicked
  /\ UNCHANGED gaugeVars
  /\ pcEv = "sm_addSpec"
  /\ made["specs"]
  /\ specsCache' = AppendTo(specsCache, ev.Name, Head(evParsed))
  /\ pcEv' = "sm_addSteps"
  /\ UNCHANGED <<conceptDictionary, made, conceptsCache, stepsCache, fsVars, wgVars, mainVars,
                 watchVars, ev, evNo, evParsed, qVars, panicked>>

\* onSpecFileModify: s.addToStepsCache(getStepsFromSpec(parsedSpec))
SpecModifyAddSteps ==
  /\ ~panicked
  /\ UNCHANGED gaugeVars
  /\ pcEv = "sm_addSteps"
  /\ made["steps"] \/ getStepsFromSpec(Head(evParsed)) = << >>
  /\ stepsCache' = addToStepsCache(stepsCache, getStepsFromSpec(Head(evParsed)))
  /\ evParsed' = << >>
  /\ pcEv' = "done"
  /\ UNCHANGED <<conceptDictionary, made, specsCache, conceptsCache, fsVars, wgVars, mainVars,
                 watchVars, ev, evNo, qVars, panicked>>

\* onConceptFileModify: conceptParser.ParseFile(file) and the early return on error
ConceptModifyParse ==
  /\ ~panicked
  /\ UNCHANGED gaugeVars
  /\ pcEv = "cm_parse"
  /\ LET r == ParseConceptFile(ev.Name, disk) IN
       /\ evParsed' = IF r.ok THEN [i \in 1..Len(r.concepts) |-> Concept(r.concepts[i], ev.Name)]
                      ELSE << >>
       /\ pcEv' = IF evParsed' = << >> THEN "done" ELSE "cm_addConcept"
  /\ UNCHANGED <<cacheVars, fsVars, wgVars, mainVars, watchVars, ev, evNo, qVars, panicked>>

\* onConceptFileModify: s.addToConceptsCache(file, &c)
ConceptModifyAddConcept ==
  /\ ~panicked
  /\ UNCHANGED gaugeVars
  /\ pcEv = "cm_addConcept"
  /\ made["concepts"]
  /\ conceptsCache' = AppendTo(conceptsCache, ev.Name, Head(evParsed))
  /\ pcEv' = "cm_addSteps"
  /\ UNCHANGED <<conceptDictionary, made, specsCache, stepsCache, fsVars, wgVars, mainVars,
                 watchVars, ev, evNo, evParsed, qVars, panicked>>

\* onConceptFileModify: s.addToStepsCache(getStepsFromConcept(&c)), then the next concept
ConceptModifyAddSteps ==
  /\ ~panicked
  /\ UNCHANGED gaugeVars
  /\ pcEv = "cm_addSteps"
  /\ made["steps"] \/ getStepsFromConcept(Head(evParsed)) = << >>
  /\ stepsCache' = addToStepsCache(stepsCache, getStepsFromConcept(Head(evParsed)))
  /\ evParsed' = Tail(evParsed)
  /\ pcEv' = IF evParsed' = << >> THEN "done" ELSE "cm_addConcept"
  /\ UNCHANGED <<conceptDictionary, made, specsCache, conceptsCache, fsVars, wgVars, mainVars,
                 watchVars, ev, evNo, qVars, panicked>>

\* an assignment to an entry of a nil map panics
NilMapPanic ==
  /\ ~panicked
  /\ UNCHANGED gaugeVars
  /\ \/ pcEv = "sm_addSpec" /\ ~made["specs"]
     \/ pcEv = "cm_addConcept" /\ ~made["concepts"]
     \/ pcEv = "sm_addSteps" /\ ~made["steps"] /\ getStepsFromSpec(Head(evParsed)) # << >>
     \/ pcEv = "cm_addSteps" /\ ~made["steps"] /\ getStepsFromConcept(Head(evParsed)) # << >>
  /\ panicked' = TRUE
  /\ UNCHANGED <<cacheVars, fsVars, wgVars, mainVars, watchVars, evVars, qVars>>

\* onSpecFileRemove: delete(s.specsCache, file)
SpecRemove ==
  /\ ~panicked
  /\ UNCHANGED gaugeVars
  /\ pcEv = "sr_delete"
  /\ specsCache' = Del(specsCache, ev.Name)
  /\ pcEv' = "done"
  /\ UNCHANGED <<conceptDictionary, made, conceptsCache, stepsCache, fsVars, wgVars, mainVars,
                 watchVars, ev, evNo, evParsed, qVars, panicked>>

\* onConceptFileRemove: delete(s.conceptsCache, file)
ConceptRemove ==
  /\ ~panicked
  /\ UNCHANGED gaugeVars
  /\ pcEv = "cr_delete"
  /\ conceptsCache' = Del(conceptsCache, ev.Name)
  /\ pcEv' = "done"
  /\ UNCHANGED <<conceptDictionary, made, specsCache, stepsCache, fsVars, wgVars, mainVars,
                 watchVars, ev, evNo, evParsed, qVars, panicked>>

\* handleEvent returns to the loop and the task has no deferred Done
EvTaskReturnsCounted ==
  /\ ~panicked
  /\ UNCHANGED gaugeVars
  /\ pcEv = "done"
  /\ ev' = NoEvent
  /\ pcEv' = "recv"
  /\ UNCHANGED <<cacheVars, fsVars, wgVars, mainVars, watchVars, evNo, evParsed, qVars, panicked>>

\* the task's deferred s.waitGroup.Done(); handleEvent returns to the loop
EvTaskDone ==
  /\ ~panicked
  /\ UNCHANGED gaugeVars
  /\ pcEv = "done"
  /\ Done(TaskToken(evNo))
  /\ ev' = NoEvent
  /\ pcEv' = "recv"
  /\ UNCHANGED <<cacheVars, fsVars, mainVars, watchVars, evNo, evParsed, qVars, panicked>>

\* ---------------------------------------------------------- the file system
\* fsnotify delivers a notification for a file of a watched directory
Notify(op, file) ==
  events' = IF (IF file = "b.spec" THEN "specs/sub" ELSE "specs") \in watchSet THEN Append(events, [Op |-> op, Name |-> file])
            ELSE events

FsWrite(file, v, limit) ==
  /\ ~panicked
  /\ UNCHANGED gaugeVars
  /\ fsOps < limit
  /\ fsOps' = fsOps + 1
  /\ disk' = [disk EXCEPT ![file] = v]
  /\ Notify(IF disk[file] = Absent THEN "Create" ELSE "Write", file)
  /\ UNCHANGED <<cacheVars, wgVars, mainVars, watchVars, evVars, qVars, panicked>>

FsRemove(file, limit) ==
  /\ ~panicked
  /\ UNCHANGED gaugeVars
  /\ fsOps < limit
  /\ disk[file] # Absent
  /\ fsOps' = fsOps + 1
  /\ disk' = [disk EXCEPT ![file] = Absent]
  /\ Notify("Remove", file)
  /\ UNCHANGED <<cacheVars, wgVars, mainVars, watchVars, evVars, qVars, panicked>>

FsRename(file, limit) ==
  /\ ~panicked
  /\ UNCHANGED gaugeVars
  /\ fsOps < limit
  /\ disk[file] # Absent
  /\ fsOps' = fsOps + 1
  /\ disk' = [disk EXCEPT ![file] = Absent]
  /\ Notify("Rename", file)
  /\ UNCHANGED <<cacheVars, wgVars, mainVars, watchVars, evVars, qVars, panicked>>

\* ------------------------------------------------------------- the queries
\* the positions of a map of slices: a key and an index into its slice
Positions(m) == UNION {{<<k, i>> : i \in 1..Len(m[k])} : k \in DOMAIN m}

\* the elements a range over a map of slices appends, with how often each is
\* appended (the order a Go map is visited in is not specified)
Collected(m) ==
  [x \in {m[p[1]][p[2]] : p \in Positions(m)} |->
     Cardinality({p \in Positions(m) : m[p[1]][p[2]] = x})]

\* []*gauge.Specification GetAvailableSpecs collects
GetAvailableSpecs == Collected(specsCache)

\* []*gauge.StepValue GetAvailableSteps collects
GetAvailableSteps ==
  [sv \in {stepsCache[k] : k \in DOMAIN stepsCache} |->
     Cardinality({k \in DOMAIN stepsCache : stepsCache[k] = sv})]

\* the ConceptInfo GetConceptInfos makes of a cached concept
ConceptInfo(concept) ==
  [StepValue |-> concept.ConceptStep.Value, Filepath |-> concept.FileName]

\* []*gauge_messages.ConceptInfo GetConceptInfos collects
GetConceptInfos ==
  Collected([k \in DOMAIN conceptsCache |->
               [i \in 1..Len(conceptsCache[k]) |-> ConceptInfo(conceptsCache[k][i])]])

\* a client calls GetAvailableSpecs, GetAvailableSteps or GetConceptInfos
QueryIssue(q) ==
  /\ ~panicked
  /\ UNCHANGED gaugeVars
  /\ pcQ[q] = "idle"
  /\ pcMain # "start"
  /\ pcQ' = [pcQ EXCEPT ![q] = "wait"]
  /\ qSeen' = [qSeen EXCEPT ![q] = inflight]
  /\ UNCHANGED <<cacheVars, fsVars, wgVars, mainVars, watchVars, evVars, panicked>>

\* the query's s.waitGroup.Wait()
QueryWait(q) ==
  /\ ~panicked
  /\ UNCHANGED gaugeVars
  /\ pcQ[q] = "wait"
  /\ WaitReturns(waitGroup)
  /\ pcQ' = [pcQ EXCEPT ![q] = "read"]
  /\ UNCHANGED <<cacheVars, fsVars, wgVars, mainVars, watchVars, evVars, qSeen, panicked>>

\* the query's copy of the cache under the mutex, and its return: it returns
\* GetAvailableSpecs, GetAvailableSteps or GetConceptInfos of the state it is taken in
QueryRead(q) ==
  /\ ~panicked
  /\ UNCHANGED gaugeVars
  /\ pcQ[q] = "read"
  /\ pcQ' = [pcQ EXCEPT ![q] = "idle"]
  /\ qSeen' = [qSeen EXCEPT ![q] = {}]
  /\ UNCHANGED <<cacheVars, fsVars, wgVars, mainVars, watchVars, evVars, panicked>>

\* ----------------------------------------------------------- getScenarioAt
\* a parsed scenario: its heading and the lines it spans
ScenarioAt(value, start, end) ==
  [Heading |-> [Value |-> value, LineNo |-> start], Span |-> [Start |-> start, End |-> end]]

\* Scenario.InSpan: the line is one of the lines the scenario spans
InSpan(sce, lineNo) == sce.Span.Start <= lineNo /\ lineNo <= sce.Span.End

\* fmt.Sprintf("%s:%d", file, lineNo)
Sprintf(file, lineNo) == file \o ":" \o ToString(lineNo)

getScenarioInfo(sce, file) ==
  [Heading |-> sce.Heading.Value,
   LineNo |-> sce.Heading.LineNo,
   ExecutionIdentifier |-> Sprintf(file, sce.Heading.LineNo)]

\* the line of the request taken as it is
SpanLineSame(line) == line

\* line + 1: the request counts lines from 0, the parser from 1
SpanLine(line) == line + 1

\* the loop of getScenarioAt over the scenarios that are left, ifs collected so far
RECURSIVE ScenarioAtLoop(_, _, _, _)
ScenarioAtLoop(scenarios, file, line, ifs) ==
  IF scenarios = << >> THEN [type |-> "[]ScenarioInfo", value |-> ifs]
  ELSE LET sce == Head(scenarios)
           info == getScenarioInfo(sce, file)
       IN IF InSpan(sce, SpanLine(line)) THEN [type |-> "ScenarioInfo", value |-> info]
          ELSE ScenarioAtLoop(Tail(scenarios), file, line, Append(ifs, info))

getScenarioAt(scenarios, file, line) == ScenarioAtLoop(scenarios, file, line, << >>)

NoResult == [type |-> "none", value |-> << >>]

ScenarioAtIdle ==
  /\ atInput = [scenarios |-> << >>, file |-> "none", line |-> 0]
  /\ atResult = NoResult

CallGetScenarioAt ==
  /\ atResult = NoResult
  /\ atResult' = getScenarioAt(atInput.scenarios, atInput.file, atInput.line)
  /\ UNCHANGED <<atInput, indexVars, expVars, itemVars, pluginVars>>

NextScenarioAt == CallGetScenarioAt

\* ------------------------------------------------------ the plugin handler
\* pluginHandler.pluginsMap is the set of the ids it maps (each id is mapped to
\* the plugin started for it; a nil map ranges, reads and deletes as an empty
\* one). handler is the main goroutine: where it is, the ids its range loop
\* has still to produce, the counter of gracefullyKillPlugins' WaitGroup, the
\* number of notifyPlugins calls made and the map as the running or last
\* notifyPlugins call found it.
Plugins == {"html-report", "xml-report"}

\* calls of notifyPlugins in a run
MaxNotifications == 2

\* pluginConnectionTimeout (10 s) in sleeps of the polling goroutine (100 ms)
pluginConnectionTimeout == 2

\* a plugin: its process (none, running, exited by itself, signalled from
\* outside, killed by Process.Kill), pluginCmd.ProcessState as the goroutine of
\* startPlugin that calls cmd.Wait() has set it (nil, exited, signalled), its
\* connection, what sendMessage returned for it in the running or last
\* notifyPlugins call, where its kill routine and the polling goroutine are,
\* the exited channel, the time since the kill routine's select began, whether
\* the kill routine called Process.Kill, and whether the process had exited by
\* itself before the timeout ran out
NewPlugin ==
  [proc |-> "none", ProcessState |-> "nil", conn |-> "ok", sent |-> "none",
   pcKill |-> "idle", pcPoll |-> "off", exited |-> FALSE, elapsed |-> 0,
   forced |-> FALSE, exitedInTime |-> FALSE]

PluginsIdle ==
  /\ pluginsMap = {}
  /\ handler = [pc |-> "start", range |-> {}, wg |-> 0, notified |-> 0, snapshot |-> {}]
  /\ plugin = [p \in Plugins |-> NewPlugin]

isStillRunning(pl) == pl.ProcessState = "nil" \/ pl.ProcessState # "exited"

addPlugin(map, pluginId) == map \cup {pluginId}

removePluginSkipped(map, pluginId) == map

removePlugin(map, pluginId) == map \ {pluginId}

\* Process.Kill(): a running process is killed, for any other it is an error
ProcessKill(proc) == IF proc = "running" THEN "killed" ELSE proc

\* startPluginsForExecution: a plugin of the manifest is started, connects and
\* is added
AddPlugin(p) ==
  /\ handler.pc = "start"
  /\ plugin[p].proc = "none"
  /\ plugin' = [plugin EXCEPT ![p].proc = "running"]
  /\ pluginsMap' = addPlugin(pluginsMap, p)
  /\ UNCHANGED <<handler, indexVars, expVars, itemVars, lspVars>>

\* the environment: a plugin exits by itself, is terminated by a signal from
\* outside, or its connection breaks
PluginExits(p) ==
  /\ plugin[p].proc = "running"
  /\ plugin' = [plugin EXCEPT ![p].proc = "exited",
                              ![p].exitedInTime = ~(plugin[p].pcKill = "done" \/
                                                    (plugin[p].pcKill = "select" /\
                                                     plugin[p].elapsed = pluginConnectionTimeout))]
  /\ UNCHANGED <<pluginsMap, handler, indexVars, expVars, itemVars, lspVars>>

PluginSignalled(p) ==
  /\ plugin[p].proc = "running"
  /\ plugin' = [plugin EXCEPT ![p].proc = "signalled"]
  /\ UNCHANGED <<pluginsMap, handler, indexVars, expVars, itemVars, lspVars>>

ConnectionBreaks(p) ==
  /\ plugin[p].proc # "none"
  /\ plugin[p].conn = "ok"
  /\ plugin' = [plugin EXCEPT ![p].conn = "broken"]
  /\ UNCHANGED <<pluginsMap, handler, indexVars, expVars, itemVars, lspVars>>

\* the goroutine of startPlugin: cmd.Wait() returns once the process has
\* ended and leaves its state in pluginCmd.ProcessState
CmdWait(p) ==
  /\ plugin[p].proc \in {"exited", "signalled", "killed"}
  /\ plugin[p].ProcessState = "nil"
  /\ plugin' = [plugin EXCEPT ![p].ProcessState =
                                 IF plugin[p].proc = "exited" THEN "exited" ELSE "signalled"]
  /\ UNCHANGED <<pluginsMap, handler, indexVars, expVars, itemVars, lspVars>>

\* notifyPlugins: the range loop begins
NotifyStart ==
  /\ handler.pc \in {"start", "ready"}
  /\ handler.notified < MaxNotifications
  /\ handler' = [handler EXCEPT !.pc = "notify", !.range = pluginsMap,
                                !.notified = @ + 1, !.snapshot = pluginsMap]
  /\ plugin' = [p \in Plugins |-> [plugin[p] EXCEPT !.sent = "none"]]
  /\ UNCHANGED <<pluginsMap, indexVars, expVars, itemVars, lspVars>>

\* one iteration: sendMessage, and killPlugin when it returned an error
NotifySend(p) ==
  /\ handler.pc = "notify"
  /\ p \in handler.range \cap pluginsMap
  /\ handler' = [handler EXCEPT !.range = @ \ {p}]
  /\ IF plugin[p].conn = "ok"
     THEN /\ plugin' = [plugin EXCEPT ![p].sent = "ok"]
          /\ UNCHANGED pluginsMap
     ELSE /\ plugin' = [plugin EXCEPT ![p].sent = "failed",
                                      ![p].proc = ProcessKill(@)]
          /\ pluginsMap' = removePlugin(pluginsMap, p)
  /\ UNCHANGED <<indexVars, expVars, itemVars, lspVars>>

NotifyReturn ==
  /\ handler.pc = "notify"
  /\ handler.range \cap pluginsMap = {}
  /\ handler' = [handler EXCEPT !.pc = "ready", !.range = {}]
  /\ UNCHANGED <<pluginsMap, plugin, indexVars, expVars, itemVars, lspVars>>

\* gracefullyKillPlugins: the range loop begins
KillStart ==
  /\ handler.pc \in {"start", "ready"}
  /\ handler' = [handler EXCEPT !.pc = "kill", !.range = pluginsMap]
  /\ UNCHANGED <<pluginsMap, plugin, indexVars, expVars, itemVars, lspVars>>

\* one iteration: wg.Add(1); go plugin.kill(&wg)
KillSpawn(p) ==
  /\ handler.pc = "kill"
  /\ p \in handler.range
  /\ handler' = [handler EXCEPT !.range = @ \ {p}, !.wg = @ + 1]
  /\ plugin' = [plugin EXCEPT ![p].pcKill = "start"]
  /\ UNCHANGED <<pluginsMap, indexVars, expVars, itemVars, lspVars>>

\* wg.Wait() returns
KillReturn ==
  /\ handler.pc = "kill"
  /\ handler.range = {}
  /\ handler.wg = 0
  /\ handler' = [handler EXCEPT !.pc = "returned"]
  /\ UNCHANGED <<pluginsMap, plugin, indexVars, expVars, itemVars, lspVars>>

\* plugin.kill: a plugin that is not running any more needs nothing; for one
\* that is, the polling goroutine is started and the select begins
KillCheck(p) ==
  /\ plugin[p].pcKill = "start"
  /\ IF isStillRunning(plugin[p])
     THEN /\ plugin' = [plugin EXCEPT ![p].pcKill = "select", ![p].pcPoll = "poll"]
          /\ UNCHANGED handler
     ELSE /\ plugin' = [plugin EXCEPT ![p].pcKill = "done"]
          /\ handler' = [handler EXCEPT !.wg = @ - 1]
  /\ UNCHANGED <<pluginsMap, indexVars, expVars, itemVars, lspVars>>

\* the polling goroutine: sleep while the plugin is still running, else send
\* on exited and return
Poll(p) ==
  /\ plugin[p].pcPoll = "poll"
  /\ plugin' = IF isStillRunning(plugin[p])
               THEN [plugin EXCEPT ![p].pcPoll = "sleep"]
               ELSE [plugin EXCEPT ![p].pcPoll = "returned", ![p].exited = TRUE]
  /\ UNCHANGED <<pluginsMap, handler, indexVars, expVars, itemVars, lspVars>>

\* 100 ms pass while the kill routine is in its select, and a sleep of the
\* polling goroutine ends. No goroutine that can run is kept waiting that
\* long: cmd.Wait() has returned if the process has ended, the polling
\* goroutine has looked at ProcessState and is asleep, and the select has
\* received from exited if there was something to receive.
Tick(p) ==
  /\ plugin[p].pcKill = "select"
  /\ plugin[p].elapsed < pluginConnectionTimeout
  /\ plugin[p].proc = "running" \/ plugin[p].ProcessState # "nil"
  /\ plugin[p].pcPoll # "poll"
  /\ ~plugin[p].exited
  /\ plugin' = [plugin EXCEPT ![p].elapsed = @ + 1,
                              ![p].pcPoll = IF @ = "sleep" THEN "poll" ELSE @]
  /\ UNCHANGED <<pluginsMap, handler, indexVars, expVars, itemVars, lspVars>>

\* case done := <-exited
KillOnExited(p) ==
  /\ plugin[p].pcKill = "select"
  /\ plugin[p].exited
  /\ plugin' = [plugin EXCEPT ![p].pcKill = "done", ![p].exited = FALSE]
  /\ handler' = [handler EXCEPT !.wg = @ - 1]
  /\ UNCHANGED <<pluginsMap, indexVars, expVars, itemVars, lspVars>>

\* case <-time.After(pluginConnectionTimeout)
KillOnTimeout(p) ==
  /\ plugin[p].pcKill = "select"
  /\ plugin[p].elapsed = pluginConnectionTimeout
  /\ plugin' = [plugin EXCEPT ![p].pcKill = "done", ![p].forced = TRUE,
                              ![p].proc = ProcessKill(@)]
  /\ handler' = [handler EXCEPT !.wg = @ - 1]
  /\ UNCHANGED <<pluginsMap, indexVars, expVars, itemVars, lspVars>>

NextPlugins ==
  \/ \E p \in Plugins : AddPlugin(p)
  \/ \E p \in Plugins : PluginExits(p)
  \/ \E p \in Plugins : PluginSignalled(p)
  \/ \E p \in Plugins : ConnectionBreaks(p)
  \/ \E p \in Plugins : CmdWait(p)
  \/ NotifyStart
  \/ \E p \in Plugins : NotifySend(p)
  \/ NotifyReturn
  \/ KillStart
  \/ \E p \in Plugins : KillSpawn(p)
  \/ KillReturn
  \/ \E p \in Plugins : KillCheck(p)
  \/ \E p \in Plugins : Poll(p)
  \/ \E p \in Plugins : Tick(p)
  \/ \E p \in Plugins : KillOnExited(p)
  \/ \E p \in Plugins : KillOnTimeout(p)

\* ------------------------------------------- the items of a Specification
\* the Item objects a parser hands to a Specification, by address: the
\* scenarios at 1 and 3 are two objects with the same content
ItemPool ==
  << [Kind |-> "ScenarioKind", Value |-> "A"],
     [Kind |-> "ScenarioKind", Value |-> "B"],
     [Kind |-> "ScenarioKind", Value |-> "A"],
     [Kind |-> "StepKind", Value |-> "context"],
     [Kind |-> "CommentKind", Value |-> "comment"],
     [Kind |-> "TagKind", Value |-> "tags"],
     [Kind |-> "DataTableKind", Value |-> "table"] >>

ItemsOfKind(kind) == {item \in DOMAIN ItemPool : ItemPool[item].Kind = kind}

\* &spec.DataTable

\* item.Kind()
Kind(item) == ItemPool[item].Kind

\* reflect.DeepEqual of two pointers: the same pointer, or pointers to values
\* that are deeply equal
DeepEqual(x, y) == x = y \/ ItemPool[x] = ItemPool[y]

EmptySpecification ==
  [Items |-> << >>, Scenarios |-> << >>, Contexts |-> << >>, Comments |-> << >>,
   Tags |-> 0, DataTable |-> 0, TearDownSteps |-> << >>]

AddItem(sp, itemToAdd) == [sp EXCEPT !.Items = Append(@, itemToAdd)]

AddScenario(sp, scenario) == AddItem([sp EXCEPT !.Scenarios = Append(@, scenario)], scenario)

AddContext(sp, contextStep) == AddItem([sp EXCEPT !.Contexts = Append(@, contextStep)], contextStep)

AddComment(sp, comment) == AddItem([sp EXCEPT !.Comments = Append(@, comment)], comment)

\* the table is copied into spec.DataTable, the item is &spec.DataTable
AddDataTable(sp, table) ==
  AddItem([sp EXCEPT !.DataTable = table],
          CHOOSE item \in DOMAIN ItemPool : ItemPool[item].Kind = "DataTableKind")

AddTags(sp, tags) == AddItem([sp EXCEPT !.Tags = tags], tags)

\* positions are counted from 1; 0 is getIndexFor's -1
NotFound == 0

\* getIndexFor: the first position whose scenario is DeepEqual to the given one
getIndexFor(scenario, scenarios) ==
  IF \E i \in 1..Len(scenarios) : DeepEqual(scenario, scenarios[i])
  THEN CHOOSE i \in 1..Len(scenarios) :
         /\ DeepEqual(scenario, scenarios[i])
         /\ \A j \in 1..(i - 1) : ~DeepEqual(scenario, scenarios[j])
  ELSE NotFound

\* a cut that always takes the branch of index 0, list[index+1:]
CutAtFromStart(list, index) == SubSeq(list, index + 1, Len(list))

\* the three branches removeItem and removeScenario cut a slice with
CutAt(list, index) ==
  IF Len(list) = index THEN SubSeq(list, 1, index - 1)
  ELSE IF index = 1 THEN SubSeq(list, 2, Len(list))
  ELSE SubSeq(list, 1, index - 1) \o SubSeq(list, index + 1, Len(list))

\* removeScenario; with index -1 every branch slices out of range, a panic
removeScenario(sp, scenario) ==
  LET index == getIndexFor(scenario, sp.Scenarios)
  IN IF index = NotFound THEN [sp |-> sp, panic |-> TRUE]
     ELSE [sp |-> [sp EXCEPT !.Scenarios = CutAt(@, index)], panic |-> FALSE]

removeItem(sp, itemIndex) ==
  LET item == sp.Items[itemIndex]
      cut == [sp EXCEPT !.Items = CutAt(@, itemIndex)]
  IN IF Kind(item) = "ScenarioKind" THEN removeScenario(cut, item)
     ELSE [sp |-> cut, panic |-> FALSE]

\* the loop of Filter from position i on; filter.Filter holds of the items in matching
RECURSIVE FilterFrom(_, _, _)
FilterFrom(sp, matching, i) ==
  IF i > Len(sp.Items) THEN [sp |-> sp, panic |-> FALSE]
  ELSE IF sp.Items[i] \in matching
       THEN LET removed == removeItem(sp, i)
            IN IF removed.panic THEN removed ELSE FilterFrom(removed.sp, matching, i)
       ELSE FilterFrom(sp, matching, i + 1)

Filter(sp, matching) == FilterFrom(sp, matching, 1)

ItemsIdle ==
  /\ specItems = EmptySpecification
  /\ ipc = "idle"

\* the parser adds a scenario, a context step, a comment, tags or a data table
CallAddScenario(scenario) ==
  /\ ipc = "build"
  /\ Len(specItems.Items) < MaxItems
  /\ specItems' = AddScenario(specItems, scenario)
  /\ UNCHANGED <<ipc, indexVars, expVars, lspVars, pluginVars>>

CallAddContext(contextStep) ==
  /\ ipc = "build"
  /\ Len(specItems.Items) < MaxItems
  /\ specItems' = AddContext(specItems, contextStep)
  /\ UNCHANGED <<ipc, indexVars, expVars, lspVars, pluginVars>>

CallAddComment(comment) ==
  /\ ipc = "build"
  /\ Len(specItems.Items) < MaxItems
  /\ specItems' = AddComment(specItems, comment)
  /\ UNCHANGED <<ipc, indexVars, expVars, lspVars, pluginVars>>

CallAddTags(tags) ==
  /\ ipc = "build"
  /\ Len(specItems.Items) < MaxItems
  /\ specItems' = AddTags(specItems, tags)
  /\ UNCHANGED <<ipc, indexVars, expVars, lspVars, pluginVars>>

CallAddDataTable(table) ==
  /\ ipc = "build"
  /\ Len(specItems.Items) < MaxItems
  /\ specItems' = AddDataTable(specItems, table)
  /\ UNCHANGED <<ipc, indexVars, expVars, lspVars, pluginVars>>

\* a caller filters the built specification; a panic ends the run
CallFilter(matching) ==
  /\ ipc \in {"build", "filter"}
  /\ matching \cap Range(specItems.Items) # {}
  /\ LET filtered == Filter(specItems, matching)
     IN /\ specItems' = filtered.sp
        /\ ipc' = IF filtered.panic THEN "panicked" ELSE "filter"
  /\ UNCHANGED <<indexVars, expVars, lspVars, pluginVars>>

CallRemoveItem(itemIndex) ==
  /\ ipc \in {"build", "filter"}
  /\ itemIndex \in 1..Len(specItems.Items)
  /\ LET removed == removeItem(specItems, itemIndex)
     IN /\ specItems' = removed.sp
        /\ ipc' = IF removed.panic THEN "panicked" ELSE "filter"
  /\ UNCHANGED <<indexVars, expVars, lspVars, pluginVars>>

NextItems ==
  \/ \E scenario \in ItemsOfKind("ScenarioKind") : CallAddScenario(scenario)
  \/ \E contextStep \in ItemsOfKind("StepKind") : CallAddContext(contextStep)
  \/ \E comment \in ItemsOfKind("CommentKind") : CallAddComment(comment)
  \/ \E tags \in ItemsOfKind("TagKind") : CallAddTags(tags)
  \/ \E table \in ItemsOfKind("DataTableKind") : CallAddDataTable(table)
  \/ \E matching \in SUBSET (DOMAIN ItemPool) : CallFilter(matching)
  \/ \E itemIndex \in 1..MaxItems : CallRemoveItem(itemIndex)

\* ------------------------------------------------------- concept expansion
\* Step and StepArg objects live in a heap and are named by their address (Go
\* pointers); address 0 is nil.  ArgLookup is the ordered, name-keyed table of
\* the design: a sequence of [name, arg], arg the address of a StepArg or nil.
\* StepArg.Table is left out: no step of the model carries a table.
Nil == 0

NoMutation == [inv |-> Nil, kind |-> "none", addr |-> Nil]

NilArg == [Value |-> "nil", ArgType |-> "nil", Name |-> "nil"]

Static(value) == [Value |-> value, ArgType |-> "static", Name |-> ""]

Dynamic(param) == [Value |-> param, ArgType |-> "dynamic", Name |-> param]

\* the concept files as the concept parser leaves them in the dictionary:
\*   # A <p>        # B <b>        # T <u> <v>
\*   * say <p>      * A <b>        * pair <u> <v>
\*                  * finish
DictionaryHeap ==
  [args |->
  << Dynamic("p"), Dynamic("p"),
     Dynamic("b"), Dynamic("b"), Dynamic("b"), Dynamic("p"),
     Dynamic("u"), Dynamic("v"), Dynamic("u"), Dynamic("v") >>,
   steps |->
  << [Value |-> "A", IsConcept |-> TRUE, Args |-> <<1>>, ConceptSteps |-> <<2>>,
      Lookup |-> << [name |-> "p", arg |-> Nil] >>, Parent |-> Nil],
     [Value |-> "say", IsConcept |-> FALSE, Args |-> <<2>>, ConceptSteps |-> << >>,
      Lookup |-> << >>, Parent |-> 1],
     [Value |-> "B", IsConcept |-> TRUE, Args |-> <<3>>, ConceptSteps |-> <<4, 6>>,
      Lookup |-> << [name |-> "b", arg |-> Nil] >>, Parent |-> Nil],
     [Value |-> "A", IsConcept |-> TRUE, Args |-> <<4>>, ConceptSteps |-> <<5>>,
      Lookup |-> << [name |-> "p", arg |-> 5] >>, Parent |-> 3],
     [Value |-> "say", IsConcept |-> FALSE, Args |-> <<6>>, ConceptSteps |-> << >>,
      Lookup |-> << >>, Parent |-> 4],
     [Value |-> "finish", IsConcept |-> FALSE, Args |-> << >>, ConceptSteps |-> << >>,
      Lookup |-> << >>, Parent |-> 3],
     [Value |-> "T", IsConcept |-> TRUE, Args |-> <<7, 8>>, ConceptSteps |-> <<8>>,
      Lookup |-> << [name |-> "u", arg |-> Nil], [name |-> "v", arg |-> Nil] >>,
      Parent |-> Nil],
     [Value |-> "pair", IsConcept |-> FALSE, Args |-> <<9, 10>>, ConceptSteps |-> << >>,
      Lookup |-> << >>, Parent |-> 7] >>]

ConceptRoots == [v \in {"A", "B", "T"} |-> CASE v = "A" -> 1 [] v = "B" -> 3 [] OTHER -> 7]

\* ConceptDictionary.Search: the concept whose step value is the given one, or nil
Search(dict, value) == IF value \in DOMAIN dict THEN dict[value] ELSE Nil

NewArg(H, arg) ==
  [H |-> [H EXCEPT !.args = Append(@, arg)], addr |-> Len(H.args) + 1]

NewStep(H, step) ==
  [H |-> [H EXCEPT !.steps = Append(@, step)], addr |-> Len(H.steps) + 1]

RECURSIVE CopyArgs(_, _)
CopyArgs(H, list) ==
  IF list = << >> THEN [H |-> H, addrs |-> << >>]
  ELSE LET first == NewArg(H, H.args[Head(list)])
           rest == CopyArgs(first.H, Tail(list))
       IN [H |-> rest.H, addrs |-> <<first.addr>> \o rest.addrs]

RECURSIVE CopyLookup(_, _)
CopyLookup(H, lookup) ==
  IF lookup = << >> THEN [H |-> H, lookup |-> << >>]
  ELSE LET entry == Head(lookup)
           first == IF entry.arg = Nil THEN [H |-> H, addr |-> Nil]
                    ELSE NewArg(H, H.args[entry.arg])
           rest == CopyLookup(first.H, Tail(lookup))
       IN [H |-> rest.H,
           lookup |-> <<[name |-> entry.name, arg |-> first.addr]>> \o rest.lookup]

\* Step.GetCopy: a deep copy of the step, its arguments, its lookup and its nested
\* steps; the Parent back-references are copied as they are
RECURSIVE GetCopy(_, _)
RECURSIVE CopySteps(_, _)
GetCopy(H, step) ==
  LET nested == CopySteps(H, H.steps[step].ConceptSteps)
      args == CopyArgs(nested.H, H.steps[step].Args)
      lookup == CopyLookup(args.H, H.steps[step].Lookup)
  IN NewStep(lookup.H, [H.steps[step] EXCEPT !.ConceptSteps = nested.addrs,
                                             !.Args = args.addrs,
                                             !.Lookup = lookup.lookup])

CopySteps(H, list) ==
  IF list = << >> THEN [H |-> H, addrs |-> << >>]
  ELSE LET first == GetCopy(H, Head(list))
           rest == CopySteps(first.H, Tail(list))
       IN [H |-> rest.H, addrs |-> <<first.addr>> \o rest.addrs]

\* Step.CopyFrom: every field of the step is taken from the other step
CopyFrom(H, self, another) == [H EXCEPT !.steps[self] = H.steps[another]]

\* ArgLookup.AddArgValue: binds the name to the argument; a name the table does
\* not hold is added to it
AddArgValue(lookup, name, arg) ==
  IF \E i \in 1..Len(lookup) : lookup[i].name = name
  THEN [err |-> FALSE,
        lookup |-> [lookup EXCEPT ![CHOOSE i \in 1..Len(lookup) : lookup[i].name = name]
                                     = [name |-> name, arg |-> arg]]]
  ELSE [err |-> FALSE, lookup |-> Append(lookup, [name |-> name, arg |-> arg])]

\* conceptArgs[0].Value whatever the position
ParamNameFirst(H, conceptArgs, i) == H.args[conceptArgs[1]].Value

\* conceptArgs[i].Value: the name of the i-th declared parameter
ParamName(H, conceptArgs, i) == H.args[conceptArgs[i]].Value

\* the loop of PopulateConceptLookup from position i on: conceptArgs[i] past the
\* end of conceptArgs is an index out of range, a runtime panic
RECURSIVE PopulateFrom(_, _, _, _, _)
PopulateFrom(H, owner, conceptArgs, stepArgs, i) ==
  IF i > Len(stepArgs) THEN [H |-> H, outcome |-> "ok"]
  ELSE IF i > Len(conceptArgs) THEN [H |-> H, outcome |-> "panic"]
  ELSE LET stepArg == NewArg(H, H.args[stepArgs[i]])
           added == AddArgValue(stepArg.H.steps[owner].Lookup,
                                ParamName(H, conceptArgs, i), stepArg.addr)
       IN IF added.err THEN [H |-> stepArg.H, outcome |-> "error"]
          ELSE PopulateFrom([stepArg.H EXCEPT !.steps[owner].Lookup = added.lookup],
                            owner, conceptArgs, stepArgs, i + 1)

\* PopulateConceptLookup on the Lookup of the step at owner
PopulateConceptLookup(H, owner, conceptArgs, stepArgs) ==
  PopulateFrom(H, owner, conceptArgs, stepArgs, 1)

\* the steps and the lookup of the dictionary's concept, taken as they are
ExpansionSourceShared(H, concept) == [H |-> H, addr |-> concept]

\* stepCopy, err := concept.GetCopy()
ExpansionSource(H, concept) == GetCopy(H, concept)

\* the nested steps keep the Parent they were copied with
SetParentsSkipped(H, step) == H

\* conceptStep.Parent = originalStep, for every conceptStep of the list
RECURSIVE SetParentOf(_, _, _)
SetParentOf(H, conceptSteps, originalStep) ==
  IF conceptSteps = << >> THEN H
  ELSE SetParentOf([H EXCEPT !.steps[Head(conceptSteps)].Parent = originalStep],
                   Tail(conceptSteps), originalStep)

\* the loop over originalStep.ConceptSteps
SetParents(H, step) == SetParentOf(H, H.steps[step].ConceptSteps, step)

\* the arguments CopyFrom brought are kept
RestoreArgsSkipped(H, originalStep, originalArgs) == H

\* originalStep.Args = originalArgs
RestoreArgs(H, originalStep, originalArgs) == [H EXCEPT !.steps[originalStep].Args = originalArgs]

createConceptStep(H, concept, originalStep) ==
  LET stepCopy == ExpansionSource(H, concept)
      originalArgs == H.steps[originalStep].Args
      copied == CopyFrom(stepCopy.H, originalStep, stepCopy.addr)
      restored == RestoreArgs(copied, originalStep, originalArgs)
      parented == SetParents(restored, originalStep)
  IN PopulateConceptLookup(parented, originalStep, H.steps[concept].Args,
                           parented.steps[originalStep].Args)

processConceptStep(H, dict, step) ==
  LET conceptFromDictionary == Search(dict, H.steps[step].Value)
  IN IF conceptFromDictionary # Nil
     THEN createConceptStep(H, conceptFromDictionary, step)
     ELSE [H |-> H, outcome |-> "ok"]

\* the steps in the order ProcessConceptStepsFrom goes through them
RECURSIVE ScenarioSteps(_)
ScenarioSteps(scenarios) ==
  IF scenarios = << >> THEN << >>
  ELSE Head(scenarios).Steps \o ScenarioSteps(Tail(scenarios))

StepOrder(spec) == spec.Contexts \o ScenarioSteps(spec.Scenarios) \o spec.TearDownSteps

\* Step.getArg: the lookup's argument for the name; a dynamic argument is the
\* name of a parameter of the enclosing invocation and is looked up in Parent
RECURSIVE getArg(_, _, _)
getArg(H, step, name) ==
  LET found == {i \in 1..Len(H.steps[step].Lookup) : H.steps[step].Lookup[i].name = name}
      arg == IF found = {} THEN Nil ELSE H.steps[step].Lookup[CHOOSE i \in found : TRUE].arg
  IN IF arg = Nil THEN NilArg
     ELSE IF H.args[arg].ArgType = "dynamic" /\ H.steps[step].Parent # Nil
          THEN getArg(H, H.steps[step].Parent, H.args[arg].Value)
          ELSE H.args[arg]

\* what a step is, addresses and Parent aside: its own fields and those of
\* everything it owns
RECURSIVE Tree(_, _)
Tree(H, step) ==
  LET st == H.steps[step]
  IN [Value |-> st.Value,
      IsConcept |-> st.IsConcept,
      Args |-> [i \in 1..Len(st.Args) |-> H.args[st.Args[i]]],
      Lookup |-> [i \in 1..Len(st.Lookup) |->
                    [name |-> st.Lookup[i].name,
                     arg |-> IF st.Lookup[i].arg = Nil THEN NilArg
                             ELSE H.args[st.Lookup[i].arg]]],
      ConceptSteps |-> [i \in 1..Len(st.ConceptSteps) |-> Tree(H, st.ConceptSteps[i])]]

\* the nested steps of a step, at any depth
RECURSIVE NestedSteps(_, _)
NestedSteps(H, step) ==
  Range(H.steps[step].ConceptSteps)
    \cup UNION {NestedSteps(H, c) : c \in Range(H.steps[step].ConceptSteps)}

\* the StepArg objects a step and its nested steps hold in Args and in Lookup
OwnedArgs(H, step) ==
  UNION {Range(H.steps[s].Args)
           \cup ({H.steps[s].Lookup[i].arg : i \in 1..Len(H.steps[s].Lookup)} \ {Nil}) :
         s \in {step} \cup NestedSteps(H, step)}

\* a step of a specification file before expansion: its value and its arguments
StepValues == {"A", "B", "T", "plain"}

\* the call-site arguments of a step: none, one, or two that differ
Templates ==
  {t \in [Value : StepValues, Args : {<< >>, <<"x">>, <<"x", "y">>, <<"y", "x">>}] :
     t.Value = "plain" => t.Args = << >>}

RECURSIVE ParseArgs(_, _)
ParseArgs(H, values) ==
  IF values = << >> THEN [H |-> H, addrs |-> << >>]
  ELSE LET first == NewArg(H, Static(Head(values)))
           rest == ParseArgs(first.H, Tail(values))
       IN [H |-> rest.H, addrs |-> <<first.addr>> \o rest.addrs]

RECURSIVE ParseSteps(_, _)
ParseSteps(H, templates) ==
  IF templates = << >> THEN [H |-> H, addrs |-> << >>]
  ELSE LET args == ParseArgs(H, Head(templates).Args)
           first == NewStep(args.H, [Value |-> Head(templates).Value, IsConcept |-> FALSE,
                                     Args |-> args.addrs, ConceptSteps |-> << >>,
                                     Lookup |-> << >>, Parent |-> Nil])
           rest == ParseSteps(first.H, Tail(templates))
       IN [H |-> rest.H, addrs |-> <<first.addr>> \o rest.addrs]

\* the first nContexts steps are contexts, the last nTearDown are teardown steps,
\* the others are the steps of the one scenario
Specification(addrs, nContexts, nTearDown) ==
  [Contexts |-> SubSeq(addrs, 1, nContexts),
   Scenarios |-> << [Steps |-> SubSeq(addrs, nContexts + 1, Len(addrs) - nTearDown)] >>,
   TearDownSteps |-> SubSeq(addrs, Len(addrs) - nTearDown + 1, Len(addrs))]

ExpandIdle ==
  /\ heap = DictionaryHeap
  /\ dictionary = ConceptRoots
  /\ specification = Specification(<< >>, 0, 0)
  /\ pos = 0
  /\ xpc = "idle"
  /\ results = << >>
  /\ mutated = NoMutation

Init == IndexInit /\ ExpandIdle /\ ItemsIdle /\ ScenarioAtIdle /\ PluginsIdle

\* a parsed specification of MaxSteps steps, about to be expanded
ExpandInit ==
  /\ IndexInit
  /\ ItemsIdle
  /\ ScenarioAtIdle
  /\ PluginsIdle
  /\ \E templates \in [1..MaxSteps -> Templates] :
       \E nContexts \in 0..1 : \E nTearDown \in 0..1 :
         LET parsed == ParseSteps(DictionaryHeap, templates)
         IN /\ heap = parsed.H
            /\ specification = Specification(parsed.addrs, nContexts, nTearDown)
  /\ dictionary = ConceptRoots
  /\ pos = 0
  /\ xpc = "run"
  /\ results = << >>
  /\ mutated = NoMutation

\* one turn of the loops of ProcessConceptStepsFrom
ProcessConceptStepsFrom ==
  /\ xpc = "run"
  /\ pos < Len(StepOrder(specification))
  /\ LET step == StepOrder(specification)[pos + 1]
         concept == Search(dictionary, heap.steps[step].Value)
         done == processConceptStep(heap, dictionary, step)
     IN /\ heap' = done.H
        /\ results' = Append(results,
             [step |-> step, concept |-> concept,
              nParams |-> IF concept = Nil THEN 0 ELSE Len(heap.steps[concept].Args),
              nArgs |-> Len(heap.steps[step].Args),
              outcome |-> done.outcome])
        /\ xpc' = CASE done.outcome = "panic" -> "panicked"
                    [] done.outcome = "error" -> "failed"
                    [] pos + 1 = Len(StepOrder(specification)) -> "done"
                    [] OTHER -> "run"
  /\ pos' = pos + 1
  /\ UNCHANGED <<dictionary, specification, mutated, indexVars, itemVars, lspVars, pluginVars>>

\* the invocation steps of the specification that have been expanded
Invocations == {results[i].step : i \in {j \in 1..Len(results) : results[j].concept # Nil}}

\* a caller changes a nested step of an expanded invocation
MutateNestedStep(inv, target) ==
  /\ xpc = "done"
  /\ mutated = NoMutation
  /\ inv \in Invocations
  /\ target \in NestedSteps(heap, inv)
  /\ heap' = [heap EXCEPT !.steps[target].Value = "changed"]
  /\ mutated' = [inv |-> inv, kind |-> "step", addr |-> target]
  /\ UNCHANGED <<dictionary, specification, pos, xpc, results, indexVars, itemVars, lspVars, pluginVars>>

\* a caller changes an argument the invocation holds: a call-site argument, a
\* bound lookup entry, or one of a nested step
MutateArg(inv, target) ==
  /\ xpc = "done"
  /\ mutated = NoMutation
  /\ inv \in Invocations
  /\ target \in OwnedArgs(heap, inv)
  /\ heap' = [heap EXCEPT !.args[target].Value = "changed"]
  /\ mutated' = [inv |-> inv, kind |-> "arg", addr |-> target]
  /\ UNCHANGED <<dictionary, specification, pos, xpc, results, indexVars, itemVars, lspVars, pluginVars>>

NextExpand ==
  \/ ProcessConceptStepsFrom
  \/ \E inv \in DOMAIN heap.steps : \E target \in DOMAIN heap.steps :
       MutateNestedStep(inv, target)
  \/ \E inv \in DOMAIN heap.steps : \E target \in DOMAIN heap.args :
       MutateArg(inv, target)

SpecExpand == ExpandInit /\ [][NextExpand]_vars

\* a Specification being built and filtered
ItemsInit ==
  /\ IndexInit
  /\ ExpandIdle
  /\ ScenarioAtIdle
  /\ PluginsIdle
  /\ specItems = EmptySpecification
  /\ ipc = "build"

SpecItems == ItemsInit /\ [][NextItems]_vars

\* calls of getScenarioAt: a request for a position of a parsed file
ScenarioAtInit ==
  /\ IndexInit
  /\ ExpandIdle
  /\ ItemsIdle
  /\ PluginsIdle
  /\ \E n \in 0..MaxScenarios :
       \E scenarios \in [1..n -> {ScenarioAt(value, start, end) :
                                     value \in {"A", "B"}, start \in 1..MaxLine, end \in 1..MaxLine}] :
       (\A i \in 1..n : scenarios[i].Span.Start <= scenarios[i].Span.End) /\
       \E file \in SpecFiles : \E line \in 0..MaxLine :
         atInput = [scenarios |-> scenarios, file |-> file, line |-> line]
  /\ atResult = NoResult

SpecScenarioAt == ScenarioAtInit /\ [][NextScenarioAt]_vars

\* the pluginHandler of a run: plugins are started, notified and killed
SpecPlugins == Init /\ [][NextPlugins]_vars

\* ------------------------------------------------------------- the mutex
\* the points of initConceptsCache, initSpecsCache and initStepsCache at which a
\* map is assigned with make(...): none of them takes s.mutex
WritesMapUnlocked(pc) == pc \in {"c_make", "s_make", "t_make"}

\* the points at which a goroutine is about to read or write a map under
\* s.mutex: the addTo...Cache calls, the deletes and a query's copy
AccessesMapLocked(pc) ==
  pc \in {"c_add", "s_add", "t_add", "sm_addSpec", "sm_addSteps", "cm_addConcept",
          "cm_addSteps", "sr_delete", "cr_delete", "read"}

\* -------------------------------------------------------------------- Next
MainStep ==
  \/ MainSpawnWatcher \/ MainWait \/ MainAdd3
  \/ InitConceptsParse \/ InitConceptsAdd \/ InitConceptsDone
  \/ InitSpecsParse \/ InitSpecsAdd \/ InitSpecsDone
  \/ InitStepsCollect \/ InitStepsAdd

WatchStep == WatchAdd \/ WatchSpawnLoop \/ WatchRegister \/ WatchDone

EvStep ==
  \/ EvRecv \/ EvWait \/ EvTaskAdd
  \/ SpecModifyCheckDictionary \/ SpecModifyParse \/ SpecModifyAddSpec \/ SpecModifyAddSteps
  \/ ConceptModifyParse \/ ConceptModifyAddConcept \/ ConceptModifyAddSteps
  \/ NilMapPanic \/ SpecRemove \/ ConceptRemove \/ EvTaskDone

FsStep(limit) ==
  \/ \E f \in Files : \E v \in {"v1", "v2", Bad} : FsWrite(f, v, limit)
  \/ \E f \in Files : FsRemove(f, limit)
  \/ \E f \in Files : FsRename(f, limit)

QueryStep ==
  \/ \E q \in Clients : QueryIssue(q)
  \/ \E q \in Clients : QueryWait(q)
  \/ \E q \in Clients : QueryRead(q)

\* directories are made, removed and renamed under the specs directory
DirStep ==
  \/ \E d \in Dirs : disk[d] = Absent /\ FsWrite(d, Dir, MaxFsOps)
  \/ \E d \in Dirs : FsRemove(d, MaxFsOps)
  \/ \E d \in Dirs : FsRename(d, MaxFsOps)

\* the part of the event loop that events on directories reach
EvDirStep ==
  \/ EvRecv \/ EvWait \/ EvAddDir \/ EvTaskAdd
  \/ SpecModifyCheckDictionary \/ SpecModifyParse \/ SpecRemove \/ EvTaskDone

NextDirs == MainStep \/ WatchStep \/ EvDirStep \/ DirStep

SpecDirs == Init /\ [][NextDirs]_vars

\* the index and the file system, with no client
NextIndex == MainStep \/ WatchStep \/ EvStep \/ FsStep(MaxFsOps)

SpecIndex == Init /\ [][NextIndex]_vars

\* the index, the file system and the clients
Next == MainStep \/ WatchStep \/ EvStep \/ FsStep(MaxQueryFsOps) \/ QueryStep

Spec == Init /\ [][Next]_vars

\* the same, with the Go scheduler running every goroutine that can take a step:
\* main, the watcher, the event loop and the goroutine of each query; the file
\* system is under no obligation to change
SpecLive ==
  /\ Init /\ [][Next]_vars
  /\ WF_vars(MainStep) /\ WF_vars(WatchStep) /\ WF_vars(EvStep)
  /\ \A q \in Clients : WF_vars(QueryWait(q) \/ QueryRead(q))

\* ================================================================== claims

\* C1: a query issued while N >= 1 index-mutating tasks are in flight is past its
\* barrier wait (about to read the cache and return) only when every one of
\* those N tasks has called Done.
C1_QueryWaitsForTasksInFlight ==
  \A q \in Clients : pcQ[q] = "read" => qSeen[q] \subseteq completed

\* a query issued during an incremental task is past its wait
C1_Witness ==
  \E q \in Clients : /\ pcQ[q] = "read"
                     /\ \E n \in 1..MaxQueryFsOps : TaskToken(n) \in qSeen[q]

\* C2: whenever the first bulk-build phase (initConceptsCache) has started, the
\* watcher goroutine has registered every directory and called Done.
C2_RegistrationBeforeBulkBuild ==
  pcMain \notin {"start", "wait", "add3", "c_make"} =>
    /\ WatchToken \in completed
    /\ watchSet = {AllDirsToWatch[i] : i \in 1..Len(AllDirsToWatch)}

\* C3: the bulk phases run in the order concepts, specs, steps: the specs phase
\* starts and runs only after initConceptsCache has created the concepts map,
\* built the dictionary and returned; the steps phase only after initSpecsCache
\* has also created the specs map and returned.
C3_BulkPhasesInOrder ==
  /\ pcMain \in {"s_make", "s_add", "t_make", "t_add"} =>
       /\ ConceptsToken \in completed
       /\ made["concepts"]
       /\ conceptDictionary.state # "nil"
  /\ pcMain \in {"t_make", "t_add"} =>
       /\ SpecsToken \in completed
       /\ made["specs"]

\* the bulk build has been through its three phases and filled the catalogue
C3_Witness ==
  /\ pcMain = "done"
  /\ {ConceptsToken, SpecsToken, StepsToken} \subseteq completed
  /\ DOMAIN specsCache # {}
  /\ DOMAIN conceptsCache # {}
  /\ DOMAIN stepsCache # {}

\* the signatures of the steps of a cached specification that are no concepts
SignaturesOf(spec) ==
  {getStepsFromSpec(spec)[i].StepValue : i \in 1..Len(getStepsFromSpec(spec))}

\* the argument a lookup binds to a name, nil when the name is not bound
Bound(H, lookup, name) ==
  LET found == {i \in 1..Len(lookup) : lookup[i].name = name /\ lookup[i].arg # Nil}
  IN IF found = {} THEN NilArg ELSE H.args[lookup[CHOOSE i \in found : TRUE].arg]

\* C4: once processConceptStep has returned for a step whose value matches a
\* concept of the dictionary, the step is a concept step whose nested steps are,
\* one by one, what the steps of the concept's body are (values, arguments,
\* lookups and nested steps), and for every position i of its call-site
\* arguments its lookup binds the name of the concept's i-th declared parameter
\* to the value of the i-th call-site argument.  The concepts of the dictionary
\* declare pairwise distinct parameter names.
C4_ExpansionBindsByPosition ==
  \A n \in 1..Len(results) :
    (results[n].concept # Nil /\ results[n].outcome = "ok" /\ mutated = NoMutation) =>
      LET step == heap.steps[results[n].step]
          concept == heap.steps[results[n].concept]
      IN /\ step.IsConcept
         /\ Len(step.ConceptSteps) = Len(concept.ConceptSteps)
         /\ \A k \in 1..Len(step.ConceptSteps) :
              Tree(heap, step.ConceptSteps[k]) = Tree(heap, concept.ConceptSteps[k])
         /\ \A i \in 1..Len(step.Args) :
              /\ i <= Len(concept.Args)
              /\ Bound(heap, step.Lookup, heap.args[concept.Args[i]].Value)
                   = heap.args[step.Args[i]]

\* an invocation of T with two different arguments and one of the nested
\* concept B have been expanded
C4_Witness ==
  /\ xpc = "done"
  /\ mutated = NoMutation
  /\ \E n \in 1..Len(results) :
       /\ results[n].concept = ConceptRoots["T"]
       /\ results[n].nArgs = 2
       /\ heap.args[heap.steps[results[n].step].Args[1]]
            # heap.args[heap.steps[results[n].step].Args[2]]
  /\ \E n \in 1..Len(results) :
       results[n].concept = ConceptRoots["B"] /\ results[n].nArgs = 1

\* C5: the expansion of an invocation whose number of call-site arguments is
\* not the number of parameters the concept declares returns an error.
C5_ArityMismatchReturnsError ==
  \A n \in 1..Len(results) :
    (results[n].concept # Nil /\ results[n].nArgs # results[n].nParams) =>
      results[n].outcome = "error"

\* C6: a change a caller makes to a nested step or to an argument (call-site,
\* bound in a lookup, or of a nested step) of one expanded invocation leaves
\* every other expanded invocation and every concept of the dictionary as they
\* were.
C6_InvocationsIndependent ==
  [][(mutated = NoMutation /\ mutated' # NoMutation) =>
       /\ \A inv \in Invocations \ {mutated'.inv} : Tree(heap', inv) = Tree(heap, inv)
       /\ \A v \in DOMAIN dictionary :
            Tree(heap', dictionary[v]) = Tree(heap, dictionary[v])]_vars

\* a nested step of one of two invocations of the same concept has been changed
C6_Witness ==
  /\ mutated.kind = "step"
  /\ \E other \in Invocations \ {mutated.inv} :
       heap.steps[other].Value = heap.steps[mutated.inv].Value

\* C7: in an expanded invocation of B with one call-site argument, the nested
\* invocation of A has the B invocation step as its Parent, and A's parameter p
\* resolves, through that Parent's lookup, to the call-site argument.
C7_NestedParameterResolvesThroughParent ==
  \A n \in 1..Len(results) :
    (/\ results[n].concept = ConceptRoots["B"]
     /\ results[n].outcome = "ok"
     /\ results[n].nArgs = 1
     /\ mutated = NoMutation) =>
      \A c \in Range(heap.steps[results[n].step].ConceptSteps) :
        heap.steps[c].Value = "A" =>
          /\ heap.steps[c].Parent = results[n].step
          /\ heap.steps[c].Parent # dictionary["B"]
          /\ getArg(heap, c, "p") = heap.args[heap.steps[results[n].step].Args[1]]

\* B has been invoked with the argument "x" and expanded
C7_Witness ==
  \E n \in 1..Len(results) :
    /\ results[n].concept = ConceptRoots["B"]
    /\ results[n].outcome = "ok"
    /\ results[n].nArgs = 1
    /\ heap.args[heap.steps[results[n].step].Args[1]] = Static("x")
    /\ \E c \in Range(heap.steps[results[n].step].ConceptSteps) :
         heap.steps[c].Value = "A" /\ getArg(heap, c, "p") = Static("x")

\* C8: at every step GetAvailableSteps holds at most one StepValue per signature,
\* each once, and a signature that is in the catalogue keeps the StepValue that
\* was inserted first.
C8_OneEntryPerSignature ==
  [][/\ \A a, b \in DOMAIN GetAvailableSteps' : a.StepValue = b.StepValue => a = b
     /\ \A a \in DOMAIN GetAvailableSteps' : GetAvailableSteps'[a] = 1
     /\ \A sig \in (DOMAIN stepsCache) \cap (DOMAIN stepsCache') :
          stepsCache'[sig] = stepsCache[sig]]_vars

\* two files with the same step text are both cached and the catalogue holds the
\* text once
C8_Witness ==
  \E f, g \in DOMAIN specsCache :
    /\ f # g
    /\ specsCache[f] # << >> /\ specsCache[g] # << >>
    /\ \E sig \in SignaturesOf(specsCache[f][1]) \cap SignaturesOf(specsCache[g][1]) :
         /\ sig \in DOMAIN stepsCache
         /\ Cardinality({a \in DOMAIN GetAvailableSteps : a.StepValue = sig}) = 1

\* C9: once the bulk build is over, a write event on a spec file leaves under
\* that path only the specification just parsed.
C9_SpecWriteReplacesEntry ==
  (pcMain = "done" /\ pcEv = "sm_addSteps") => specsCache[ev.Name] = <<Head(evParsed)>>

\* C10: once the bulk build is over, when a write event on a concept file has
\* added the last concept of its parse, the entry of that path ends with that
\* concept and holds no concept twice.
C10_ConceptWriteReplacesEntry ==
  (pcMain = "done" /\ pcEv = "cm_addSteps" /\ Len(evParsed) = 1) =>
    LET entry == conceptsCache[ev.Name] IN
    /\ entry[Len(entry)] = Head(evParsed)
    /\ \A i, j \in 1..Len(entry) :
         entry[i].ConceptStep.Value = entry[j].ConceptStep.Value => i = j

\* the values of the steps of a specification's contexts and scenarios that are
\* not concept invocations
NonConceptStepValues(spec) ==
  {st.Value : st \in {x \in Range(spec.Contexts)
                        \cup UNION {Range(spec.Scenarios[i].Steps) : i \in 1..Len(spec.Scenarios)} :
                      ~x.IsConcept}}

\* C11: when the task of a write or create event on a spec file has added the
\* file's steps to the catalogue, GetAvailableSteps is what it was before plus
\* one StepValue for each signature of the file's non-concept context and
\* scenario steps that was not there: the StepValues it held are all still
\* there, no signature is held twice, and no other signature has come in.
C11_NewSpecFileExtendsCatalogue ==
  [][(pcEv = "sm_addSteps" /\ pcEv' = "done") =>
       /\ DOMAIN stepsCache' = DOMAIN stepsCache \cup NonConceptStepValues(Head(evParsed))
       /\ \A sv \in DOMAIN GetAvailableSteps : sv \in DOMAIN GetAvailableSteps'
       /\ \A sv \in DOMAIN GetAvailableSteps' : GetAvailableSteps'[sv] = 1
       /\ \A a, b \in DOMAIN GetAvailableSteps' : a.StepValue = b.StepValue => a = b]_vars

\* the create event of b.spec has been processed after the bulk build: "Submit
\* form" has come in from b.spec, "Click button" is still the one of a.spec
C11_Witness ==
  /\ pcMain = "done"
  /\ pcEv = "done"
  /\ ev = [Op |-> "Create", Name |-> "b.spec"]
  /\ "b.spec" \in DOMAIN specsCache
  /\ {"Click button", "Submit form"} \subseteq DOMAIN stepsCache
  /\ stepsCache["Submit form"].origin = "b.spec"
  /\ stepsCache["Click button"].origin = "a.spec"

\* C12: when the task of a remove event on the spec file p has deleted p's
\* entry, GetAvailableSpecs holds no specification of p, the specifications
\* cached under every other path are what they were, and the step catalogue
\* (with the StepValues only p had) and the concepts cache are what they were.
C12_SpecRemoveEvictsOnlyItsEntry ==
  [][(pcEv = "sr_delete" /\ pcEv' = "done") =>
       /\ \A spec \in DOMAIN GetAvailableSpecs' : spec.FileName # ev.Name
       /\ ev.Name \notin DOMAIN specsCache'
       /\ DOMAIN specsCache' = DOMAIN specsCache \ {ev.Name}
       /\ \A f \in DOMAIN specsCache' : specsCache'[f] = specsCache[f]
       /\ stepsCache' = stepsCache
       /\ GetAvailableSteps' = GetAvailableSteps
       /\ conceptsCache' = conceptsCache]_vars

\* a.spec has been removed after b.spec was added: b.spec is still cached and
\* the catalogue still holds the StepValue a.spec brought in
C12_Witness ==
  /\ pcMain = "done"
  /\ pcEv = "done"
  /\ ev = [Op |-> "Remove", Name |-> "a.spec"]
  /\ "a.spec" \notin DOMAIN specsCache
  /\ "b.spec" \in DOMAIN specsCache
  /\ "Click button" \in DOMAIN stepsCache
  /\ stepsCache["Click button"].origin = "a.spec"

\* the text of a parsed specification: the values of its steps, whether or not
\* they are concept invocations
SourceOf(spec) ==
  [Contexts |-> [i \in 1..Len(spec.Contexts) |-> spec.Contexts[i].Value],
   Scenarios |-> [i \in 1..Len(spec.Scenarios) |->
                    [j \in 1..Len(spec.Scenarios[i].Steps) |-> spec.Scenarios[i].Steps[j].Value]]]

\* the task has just cached a specification whose text is the one of the
\* specification cached before it under the same path
ReparsedSpec ==
  /\ pcEv = "sm_addSteps"
  /\ Len(specsCache[ev.Name]) >= 2
  /\ SourceOf(specsCache[ev.Name][Len(specsCache[ev.Name]) - 1]) = SourceOf(Head(evParsed))

\* the task has just cached a concept that was cached before under the same path
ReparsedConcept ==
  /\ pcEv = "cm_addSteps"
  /\ \E i \in 1..(Len(conceptsCache[ev.Name]) - 1) : conceptsCache[ev.Name][i] = Head(evParsed)

\* C13: when the task of a write event upserts the steps of a spec or concept
\* file whose content is what was parsed and cached before, GetAvailableSteps
\* (the signatures and the StepValue held for each) is after it what it was
\* before it.
C13_ReparseLeavesCatalogue ==
  [][((ReparsedSpec \/ ReparsedConcept) /\ pcEv' # pcEv) =>
       /\ GetAvailableSteps' = GetAvailableSteps
       /\ stepsCache' = stepsCache]_vars

\* C14: Scenarios is at every moment the sequence of the scenarios among Items:
\* the same objects in the same order.
C14_ScenariosMirrorItems ==
  ipc # "idle" =>
    specItems.Scenarios = SelectSeq(specItems.Items, LAMBDA item : Kind(item) = "ScenarioKind")

\* C15: getScenarioAt returns the summary (heading, heading line and the
\* identifier "file:line") of the first scenario of the list whose span contains
\* line + 1, and the summaries of all the scenarios, in list order, when no
\* span contains it.
C15_ScenarioAtFirstInSpan ==
  atResult # NoResult =>
    LET scenarios == atInput.scenarios
        hits == {i \in 1..Len(scenarios) :
                   /\ scenarios[i].Span.Start <= atInput.line + 1
                   /\ atInput.line + 1 <= scenarios[i].Span.End}
        summary(i) == [Heading |-> scenarios[i].Heading.Value,
                       LineNo |-> scenarios[i].Heading.LineNo,
                       ExecutionIdentifier |->
                         atInput.file \o ":" \o ToString(scenarios[i].Heading.LineNo)]
    IN IF hits # {}
       THEN /\ atResult.type = "ScenarioInfo"
            /\ atResult.value = summary(CHOOSE i \in hits : \A j \in hits : i <= j)
       ELSE /\ atResult.type = "[]ScenarioInfo"
            /\ Len(atResult.value) = Len(scenarios)
            /\ \A i \in 1..Len(scenarios) : atResult.value[i] = summary(i)

\* the second of two scenarios whose spans both contain the line after the
\* asked one was not returned: the first was
C15_Witness ==
  /\ atResult.type = "ScenarioInfo"
  /\ Len(atInput.scenarios) = 2
  /\ InSpan(atInput.scenarios[1], atInput.line + 1)
  /\ InSpan(atInput.scenarios[2], atInput.line + 1)
  /\ ~InSpan(atInput.scenarios[2], atInput.line)
  /\ atInput.scenarios[1].Heading # atInput.scenarios[2].Heading
  /\ atResult.value.Heading = atInput.scenarios[1].Heading.Value
  /\ atResult.value.ExecutionIdentifier = "a.spec:1"

\* C16: when the file of a write or create event does not parse (the concept
\* parser reports an error, the spec parser returns no specification), the task
\* goes straight to its deferred Done: the parse step and the Done step leave
\* the specs cache, the concepts cache and the step catalogue as they were, the
\* entries of every other file included, and the Done step marks the task complete.
C16_ParseFailureLeavesCaches ==
  [][/\ (/\ pcEv \in {"sm_new", "sm_parse", "cm_parse"}
         /\ disk[ev.Name] \in {Absent, Bad}
         /\ pcEv' # pcEv)
          => /\ pcEv' = "done"
             /\ <<specsCache, conceptsCache, stepsCache>>' = <<specsCache, conceptsCache, stepsCache>>
             /\ GetAvailableSpecs' = GetAvailableSpecs
             /\ GetAvailableSteps' = GetAvailableSteps
             /\ GetConceptInfos' = GetConceptInfos
             /\ ~panicked'
     /\ (pcEv = "done" /\ pcEv' # pcEv)
          => /\ <<specsCache, conceptsCache, stepsCache>>' = <<specsCache, conceptsCache, stepsCache>>
             /\ TaskToken(evNo) \in inflight /\ TaskToken(evNo) \notin completed
             /\ TaskToken(evNo) \in completed'
             /\ ~panicked']_vars

\* after the bulk build indexed a.spec, a write left b.spec malformed: its task
\* is at its Done, nothing of b.spec is cached and a.spec is cached as before
C16_Witness ==
  /\ pcMain = "done"
  /\ pcEv = "done" /\ ev = [Op |-> "Write", Name |-> "b.spec"] /\ disk["b.spec"] = Bad
  /\ "b.spec" \notin DOMAIN specsCache
  /\ "a.spec" \in DOMAIN specsCache /\ Len(specsCache["a.spec"]) = 1
  /\ "Click button" \in DOMAIN stepsCache

\* C17: the expansion of an invocation step leaves its call-site argument list
\* as it was: the same arguments in the same order with the same values, not
\* the parameters the concept declares.
C17_ExpansionKeepsCallSiteArgs ==
  [][(xpc = "run" /\ pos' = pos + 1
        /\ Search(dictionary, heap.steps[StepOrder(specification)[pos + 1]].Value) # Nil) =>
       LET step == StepOrder(specification)[pos + 1] IN
         /\ heap'.steps[step].Args = heap.steps[step].Args
         /\ \A arg \in Range(heap.steps[step].Args) : heap'.args[arg] = heap.args[arg]]_vars

\* an invocation of T with two arguments was expanded: it holds the concept's
\* nested step and still its own two arguments, which are not T's parameters
C17_Witness ==
  \E n \in 1..Len(results) :
    LET step == results[n].step IN
      /\ results[n].concept = ConceptRoots["T"]
      /\ results[n].outcome = "ok"
      /\ heap.steps[step].IsConcept
      /\ Len(heap.steps[step].ConceptSteps) = 1
      /\ Len(heap.steps[step].Args) = 2
      /\ [i \in 1..2 |-> heap.args[heap.steps[step].Args[i]]] = <<Static("y"), Static("x")>>
      /\ [i \in 1..2 |-> heap.args[heap.steps[ConceptRoots["T"]].Args[i]]]
           = <<Dynamic("u"), Dynamic("v")>>

\* C18: an incremental task adds one to the barrier counter once, on entry, and
\* takes one off once, on exit, whatever its path; from its Add to its Done the
\* counter is at least one and counts the task, and the counter is never negative.
C18_TaskHoldsBarrier ==
  /\ [](/\ waitGroup >= 0
        /\ pcEv \notin {"off", "recv", "wait", "add"} =>
             /\ waitGroup >= 1
             /\ TaskToken(evNo) \in inflight
             /\ TaskToken(evNo) \notin completed)
  /\ [][/\ (pcEv = "add" /\ pcEv' # pcEv) =>
              /\ waitGroup' = waitGroup + 1
              /\ TaskToken(evNo) \notin inflight \cup completed
              /\ inflight' = inflight \cup {TaskToken(evNo)}
        /\ (pcEv \notin {"off", "recv", "wait", "add"} /\ pcEv' = "recv") =>
              /\ pcEv = "done"
              /\ waitGroup' = waitGroup - 1
              /\ completed' = completed \cup {TaskToken(evNo)}
        /\ (pcEv \notin {"off", "recv", "wait", "add"} /\ pcEv' # "recv") =>
              /\ TaskToken(evNo) \in inflight'
              /\ TaskToken(evNo) \notin completed']_vars

\* a second task, for a file that does not parse, is about to leave: the
\* counter counts it alone and the first task has completed
C18_Witness ==
  /\ pcEv = "done" /\ evNo = 2 /\ disk[ev.Name] = Bad /\ ev.Op = "Write"
  /\ waitGroup = 1
  /\ inflight = {TaskToken(2)}
  /\ TaskToken(1) \in completed

\* C19: no query reads the cache between a task's insert of a file's
\* specification or concept and its upsert of that file's StepValues: whenever a
\* query takes its copy, no task has inserted a specification or concept whose
\* StepValues are still missing from the catalogue.
C19_TaskMutationAtomicForQueries ==
  [][\A q \in Clients :
       (pcQ[q] = "read" /\ pcQ'[q] = "idle") =>
         /\ ~(/\ pcEv = "sm_addSteps"
              /\ specsCache[ev.Name][Len(specsCache[ev.Name])] = Head(evParsed)
              /\ \E i \in 1..Len(getStepsFromSpec(Head(evParsed))) :
                   getStepsFromSpec(Head(evParsed))[i].StepValue \notin DOMAIN stepsCache)
         /\ ~(/\ pcEv = "cm_addSteps"
              /\ conceptsCache[ev.Name][Len(conceptsCache[ev.Name])] = Head(evParsed)
              /\ \E i \in 1..Len(getStepsFromConcept(Head(evParsed))) :
                   getStepsFromConcept(Head(evParsed))[i].StepValue \notin DOMAIN stepsCache)]_vars

\* C20 as claimed: updates for different files may proceed in parallel, so
\* while the task for one file is in flight the event loop can take the pending
\* event of another file, whose task is then in flight with the first.
C20_UpdatesMayOverlap ==
  (/\ pcEv \notin {"off", "recv", "wait", "add"}
   /\ TaskToken(evNo) \in inflight
   /\ events # << >>
   /\ Head(events).Name # ev.Name) => ENABLED EvRecv

\* C20, amended: incremental updates run one at a time in the event-loop
\* goroutine: the only task in flight is the one handleEvent is running, none
\* is in flight while the loop receives or waits, and an event for another file
\* stays in the channel until the running task has done its Done.
C20_OneTaskAtATime ==
  LET tasks == {token \in inflight : token[1] = "task"} IN
    /\ Cardinality(tasks) <= 1
    /\ pcEv \in {"off", "recv", "wait", "add"} => tasks = {}
    /\ pcEv \notin {"off", "recv", "wait", "add"} => tasks = {TaskToken(evNo)}
    /\ \A n \in 1..evNo : n # evNo => TaskToken(n) \notin inflight

\* the task for a.spec is in flight, about to write the cache, while an event
\* for b.spec waits in the channel
C20_Witness ==
  /\ pcEv = "sm_addSpec" /\ ev.Name = "a.spec"
  /\ inflight = {TaskToken(evNo)}
  /\ events # << >> /\ Head(events).Name = "b.spec"

\* C21: every write of the three maps, their creation by the bulk build
\* included, is made under the shared mutex, so no goroutine is about to assign
\* a map without the mutex while another goroutine is about to read or write one.
C21_MapWritesUnderMutex ==
  ~(/\ WritesMapUnlocked(pcMain)
    /\ \/ AccessesMapLocked(pcEv)
       \/ \E q \in Clients : AccessesMapLocked(pcQ[q]))

\* C22: when the create event of a directory made inside a watched tree has
\* been handled, the directory is in the watch set.
C22_NewDirectoryIsWatched ==
  [][(/\ ev.Op = "Create" /\ ev.Name \in Dirs /\ IsDir(ev.Name, disk)
      /\ pcEv # "recv" /\ pcEv' = "recv") => ev.Name \in watchSet']_vars

\* C23: when the remove or rename event of a watched directory that is neither
\* a specification nor a concept file has been handled, the directory is no
\* longer in the watch set.
C23_RemovedDirectoryIsUnwatched ==
  [][(/\ ev.Op \in {"Remove", "Rename"} /\ ev.Name \in Dirs
      /\ ~IsSpec(ev.Name) /\ ~IsConcept(ev.Name)
      /\ ev.Name \in watchSet
      /\ pcEv # "recv" /\ pcEv' = "recv") => ev.Name \notin watchSet']_vars

\* C24: a rename event is processed as a remove event for the same path is: it
\* starts the task a remove starts, that task deletes the path's entry of the
\* specs or the concepts cache and changes nothing else (the other entries, the
\* step catalogue and the watch set stay, the counter goes up by one and down
\* by one), and no step of it inserts anything.
C24_RenameIsRemove ==
  [][(ev.Op = "Rename" /\ pcEv' # pcEv) =>
       /\ pcEv = "add" =>
            /\ pcEv' = TaskOf([Op |-> "Remove", Name |-> ev.Name])
            /\ waitGroup' = waitGroup + 1
       /\ pcEv = "sr_delete" =>
            specsCache' = Del(specsCache, ev.Name) /\ conceptsCache' = conceptsCache
       /\ pcEv = "cr_delete" =>
            conceptsCache' = Del(conceptsCache, ev.Name) /\ specsCache' = specsCache
       /\ pcEv = "done" => waitGroup' = waitGroup - 1
       /\ pcEv \in {"wait", "add", "sr_delete", "cr_delete", "done"}
       /\ DOMAIN specsCache' \subseteq DOMAIN specsCache
       /\ DOMAIN conceptsCache' \subseteq DOMAIN conceptsCache
       /\ stepsCache' = stepsCache
       /\ watchSet' = watchSet]_vars

\* after the bulk build indexed a.spec, its rename has been processed: the
\* entry of a.spec is gone, the concepts and the catalogue are as they were
C24_Witness ==
  /\ pcMain = "done"
  /\ pcEv = "done" /\ ev = [Op |-> "Rename", Name |-> "a.spec"]
  /\ "a.spec" \notin DOMAIN specsCache
  /\ "c.cpt" \in DOMAIN conceptsCache
  /\ "Click button" \in DOMAIN stepsCache

\* C25: no handler of a watch event changes the cache while the bulk build is
\* under way or before the maps exist: a handler is at a cache write only when
\* the bulk build is over, no insert goes into a map that was not created, and
\* a map the bulk build re-creates holds no insert that would be lost.
C25_NoHandlerDuringBulkBuild ==
  /\ [](/\ ~panicked
        /\ pcEv \in {"sm_addSpec", "sm_addSteps", "cm_addConcept", "cm_addSteps",
                     "sr_delete", "cr_delete"} => pcMain = "done")
  /\ [][/\ (pcMain = "c_make" /\ pcMain' # pcMain) => conceptsCache = EmptyMap
        /\ (pcMain = "s_make" /\ pcMain' # pcMain) => specsCache = EmptyMap
        /\ (pcMain = "t_make" /\ pcMain' # pcMain) => stepsCache = EmptyMap]_vars

\* C26: with every goroutine scheduled fairly, once MakeListOfAvailableSteps has
\* returned the counter comes back to zero, a query that waits at the barrier
\* returns, and the event loop does not stay for ever in its own barrier wait.
C26_BarrierReleases ==
  /\ (pcMain = "done") ~> (waitGroup = 0)
  /\ \A q \in Clients : (pcMain = "done" /\ pcQ[q] = "wait") ~> (pcQ[q] = "idle")
  /\ (pcMain = "done" /\ pcEv = "wait") ~> (pcEv # "wait")

\* a query is past the barrier after the bulk build and after a watch event's
\* task was counted and has done its Done
C26_Witness ==
  \E q \in Clients :
    /\ pcMain = "done" /\ pcQ[q] = "read"
    /\ waitGroup = 0
    /\ TaskToken(1) \in completed

\* C27: once the bulk build has finished the catalogue only grows: a step of
\* any goroutine leaves every signature of the catalogue in it, mapped to the
\* StepValue it was mapped to.
C27_CatalogueOnlyGrows ==
  [][pcMain = "done" =>
       \A sig \in DOMAIN stepsCache :
         sig \in DOMAIN stepsCache' /\ stepsCache'[sig] = stepsCache[sig]]_vars

\* after the bulk build, b.spec was made, holding a step of a.spec and a new
\* one, and a.spec was removed: the catalogue has the new step and still has
\* the step of a.spec, as a.spec gave it
C27_Witness ==
  /\ pcMain = "done" /\ pcEv = "recv" /\ evNo = 2 /\ events = << >>
  /\ disk["a.spec"] = Absent /\ "a.spec" \notin DOMAIN specsCache
  /\ "b.spec" \in DOMAIN specsCache
  /\ "Submit form" \in DOMAIN stepsCache
  /\ "Click button" \in DOMAIN stepsCache /\ stepsCache["Click button"].origin = "a.spec"

\* C28: Filter leaves in Items exactly the items its filter did not match, in
\* their order, whatever the positions of the matches are, returns without a
\* panic, and leaves Contexts, Comments, Tags and TearDownSteps as they were
\* (the items of a Specification the filter matches are what counts of it).
C28_FilterKeepsNonMatching ==
  [][\A matching \in SUBSET Range(specItems.Items) :
       CallFilter(matching) =>
         /\ ipc' = "filter"
         /\ specItems'.Items = SelectSeq(specItems.Items, LAMBDA item : item \notin matching)
         /\ specItems'.Contexts = specItems.Contexts
         /\ specItems'.Comments = specItems.Comments
         /\ specItems'.Tags = specItems.Tags
         /\ specItems'.TearDownSteps = specItems.TearDownSteps]_vars

\* of a scenario, a comment and a context step the comment alone is left in
\* Items, and the context step is still in Contexts
C28_Witness ==
  /\ ipc = "filter"
  /\ specItems.Items = <<5>>
  /\ specItems.Scenarios = << >>
  /\ specItems.Contexts = <<4>>
  /\ specItems.Comments = <<5>>

\* C29: gracefullyKillPlugins returns only after the kill routine of every
\* plugin of the map has finished; a kill routine finishes only when the plugin
\* has exited by itself or, after pluginConnectionTimeout, has been killed by
\* force; and a plugin that exits within the timeout is never killed by force.
C29_KillWaitsAndForcesOnlyLate ==
  /\ handler.pc = "returned" => \A p \in pluginsMap : plugin[p].pcKill = "done"
  /\ \A p \in Plugins :
       /\ plugin[p].pcKill = "done" =>
            \/ plugin[p].ProcessState = "exited"
            \/ plugin[p].forced /\ plugin[p].elapsed = pluginConnectionTimeout
       /\ plugin[p].forced => ~plugin[p].exitedInTime

\* the first two parts of C29 alone
C29_KillWaits ==
  /\ handler.pc = "returned" => \A p \in pluginsMap : plugin[p].pcKill = "done"
  /\ \A p \in Plugins :
       plugin[p].pcKill = "done" =>
         \/ plugin[p].ProcessState = "exited"
         \/ plugin[p].forced /\ plugin[p].elapsed = pluginConnectionTimeout

\* C30: when notifyPlugins has returned, sendMessage has been called for every
\* plugin the map held, the map holds exactly those for which it succeeded,
\* and each plugin for which it failed is not running any more.
C30_NotifyKeepsReachablePlugins ==
  handler.pc = "ready" =>
    /\ pluginsMap \subseteq handler.snapshot
    /\ \A p \in handler.snapshot :
         /\ plugin[p].sent # "none"
         /\ p \in pluginsMap <=> plugin[p].sent = "ok"
         /\ plugin[p].sent = "failed" => plugin[p].proc # "running"

\* a notification found two plugins in the map, failed for one and reached
\* the other, which alone is left in the map
C30_Witness ==
  /\ handler.pc = "ready"
  /\ handler.snapshot = Plugins
  /\ \E p \in Plugins : \E q \in Plugins :
       /\ plugin[p].sent = "failed" /\ plugin[p].proc = "killed"
       /\ plugin[q].sent = "ok"
       /\ pluginsMap = {q}
====
